---- MODULE Spec2Model ----
(***************************************************************************)
(* Model of the CrossSpec source-code unit extraction engine:              *)
(*   crossspec/code_extract/c_cpp_extractor.py   (C-family locator)        *)
(*   crossspec/code_extract/python_extractor.py  (indent-family locator)   *)
(*   crossspec/code_extract/scanner.py           (scanner, line slices)    *)
(*   crossspec/cli.py, crossspec/claims.py       (run, claim identifiers)  *)
(*                                                                         *)
(* A text is a sequence of one-character strings; a line number and a      *)
(* column are counted from 1 (the source counts both from 0 and adds 1     *)
(* when it emits a span).                                                  *)
(***************************************************************************)
EXTENDS Integers, Sequences, FiniteSets, TLC

(***************************************************************************)
(* Characters                                                              *)
(***************************************************************************)
Lower ==
  {"a","b","c","d","e","f","g","h","i","j","k","l","m",
   "n","o","p","q","r","s","t","u","v","w","x","y","z"}

Upper ==
  {"A","B","C","D","E","F","G","H","I","J","K","L","M",
   "N","O","P","Q","R","S","T","U","V","W","X","Y","Z"}

Digit == {"0","1","2","3","4","5","6","7","8","9"}

\* [A-Za-z_]
IsIdentStart(c) == c \in Lower \cup Upper \cup {"_"}

\* \w, [A-Za-z0-9_]
IsWord(c) == c \in Lower \cup Upper \cup Digit \cup {"_"}

\* [A-Za-z0-9_:~]
IsNameChar(c) == IsWord(c) \/ c \in {":", "~"}

\* \s, str.split(), str.strip(), str.lstrip()
IsSpace(c) == c \in {" ", "\t", "\n", "\f"}

\* None as a name or a location, and as a line number
None == <<>>

\* no exception
NoError == "none"

NoLine == 0

Max(a, b) == IF a >= b THEN a ELSE b

Min(a, b) == IF a <= b THEN a ELSE b

(***************************************************************************)
(* Strings                                                                 *)
(***************************************************************************)
\* the position of the first line boundary of s from position i on,
\* Len(s) + 1 when there is none
LineEnd(s, i, boundaries) ==
  IF \E j \in i..Len(s) : s[j] \in boundaries
  THEN CHOOSE j \in i..Len(s) :
         s[j] \in boundaries /\ \A k \in i..(j - 1) : s[k] \notin boundaries
  ELSE Len(s) + 1

\* the lines of s from position i on; no empty last line after a final
\* boundary
RECURSIVE SplitFrom(_, _, _)
SplitFrom(s, i, boundaries) ==
  IF i > Len(s) THEN <<>>
  ELSE <<SubSeq(s, i, LineEnd(s, i, boundaries) - 1)>>
       \o SplitFrom(s, LineEnd(s, i, boundaries) + 1, boundaries)

\* str.splitlines(): a line ends at a line feed and at a form feed
splitlines(s) == SplitFrom(s, 1, {"\n", "\f"})

\* the lines that ast.parse counts: a line ends at a line feed, a form feed
\* is white space within its line
SourceLines(s) == SplitFrom(s, 1, {"\n"})

\* "\n".join(parts)
RECURSIVE JoinNl(_)
JoinNl(parts) ==
  IF parts = <<>> THEN <<>>
  ELSE IF Len(parts) = 1 THEN parts[1]
  ELSE parts[1] \o <<"\n">> \o JoinNl(Tail(parts))

\* line.lstrip()
RECURSIVE lstrip(_)
lstrip(s) ==
  IF s # <<>> /\ IsSpace(s[1]) THEN lstrip(Tail(s)) ELSE s

\* s.startswith(p)
StartsWith(s, p) ==
  Len(s) >= Len(p) /\ SubSeq(s, 1, Len(p)) = p

\* p occurs in s at position i
OccursAt(s, p, i) ==
  i + Len(p) - 1 <= Len(s) /\ SubSeq(s, i, i + Len(p) - 1) = p

\* s.find(p), counted from 1; 0 when absent
find(s, p) ==
  IF \E i \in 1..Len(s) : OccursAt(s, p, i)
  THEN CHOOSE i \in 1..Len(s) :
         OccursAt(s, p, i) /\ \A j \in 1..(i - 1) : ~OccursAt(s, p, j)
  ELSE 0

\* "(" in line
Contains(s, c) == \E i \in 1..Len(s) : s[i] = c

\* " ".join(signature.split())
RECURSIVE Collapse(_, _, _)
Collapse(s, i, out) ==
  IF i > Len(s) THEN out
  ELSE IF IsSpace(s[i]) THEN Collapse(s, i + 1, out)
  ELSE IF out # <<>> /\ i > 1 /\ IsSpace(s[i - 1])
       THEN Collapse(s, i + 1, out \o <<" ", s[i]>>)
       ELSE Collapse(s, i + 1, Append(out, s[i]))

\* iter_lines_slice
iter_lines_slice(lines, line_start, line_end) ==
  LET start_index == Max(line_start - 1, 0)
      end_index == Min(line_end, Len(lines))
  IN JoinNl(SubSeq(lines, start_index + 1, end_index))

(***************************************************************************)
(* Lexical state tracker                                                   *)
(***************************************************************************)
ScanState ==
  [in_block_comment |-> FALSE, in_line_comment |-> FALSE,
   in_string |-> FALSE, in_char |-> FALSE, escape_next |-> FALSE]

reset_line(state) == [state EXCEPT !.in_line_comment = FALSE]

\* line[col + 1], "" past the end
peek(line, col) == IF col + 1 <= Len(line) THEN line[col + 1] ELSE ""

\* OpensBlockComment without its test of in_string
OpensBlockComment_InString(state, line, col) ==
  line[col] = "/" /\ peek(line, col) = "*" /\ ~state.in_char

\* 'char == "/" and _peek(line, col) == "*" and not state.in_string and not
\* state.in_char'
OpensBlockComment(state, line, col) ==
  line[col] = "/" /\ peek(line, col) = "*"
    /\ ~state.in_string /\ ~state.in_char

\* One character of a scanning loop, up to the test of in_string/in_char.
\* act = "break": the rest of the line is skipped; "continue": the character
\* is consumed by the tracker; "code": the character reaches the loop's own
\* tests of ';', '{' and '}'.
TrackerStep(state, line, col) ==
  LET char == line[col] IN
  IF state.in_line_comment THEN [state |-> state, act |-> "break"]
  ELSE IF state.escape_next
    THEN [state |-> [state EXCEPT !.escape_next = FALSE], act |-> "continue"]
  ELSE IF char = "\\" /\ (state.in_string \/ state.in_char)
    THEN [state |-> [state EXCEPT !.escape_next = TRUE], act |-> "continue"]
  ELSE IF state.in_block_comment
    THEN IF char = "*" /\ peek(line, col) = "/"
         THEN [state |-> [state EXCEPT !.in_block_comment = FALSE],
               act |-> "continue"]
         ELSE [state |-> state, act |-> "continue"]
  ELSE IF OpensBlockComment(state, line, col)
    THEN [state |-> [state EXCEPT !.in_block_comment = TRUE],
          act |-> "continue"]
  ELSE IF char = "/" /\ peek(line, col) = "/"
          /\ ~state.in_string /\ ~state.in_char
    THEN [state |-> [state EXCEPT !.in_line_comment = TRUE],
          act |-> "continue"]
  ELSE
    LET s2 == IF char = "\"" /\ ~state.in_char
                THEN [state EXCEPT !.in_string = ~state.in_string]
              ELSE IF char = "'" /\ ~state.in_string
                THEN [state EXCEPT !.in_char = ~state.in_char]
              ELSE state
    IN [state |-> s2,
        act |-> IF s2.in_string \/ s2.in_char THEN "continue" ELSE "code"]

(***************************************************************************)
(* C-family unit locator                                                   *)
(***************************************************************************)
CONTROL_KEYWORDS ==
  { <<"i","f">>, <<"f","o","r">>, <<"w","h","i","l","e">>,
    <<"s","w","i","t","c","h">>, <<"c","a","t","c","h">> }

\* max_lines with one line more
max_lines_OneMore == 25 + 1

\* _collect_signature: "max_lines: int = 25"
max_lines == 25

\* SignatureEnd without its test of ';'
SignatureEnd_NoSemicolon(char) ==
  IF char = "{" THEN "definition" ELSE "none"

\* _collect_signature: what a character outside strings and comments ends
SignatureEnd(char) ==
  IF char = ";" THEN "declaration"
  ELSE IF char = "{" THEN "definition"
  ELSE "none"

\* _collect_signature: "for col, char in enumerate(line)", the characters of
\* one line from column col on; end is what ended the signature on this line
RECURSIVE CollectLine(_, _, _)
CollectLine(line, col, state) ==
  LET r == TrackerStep(state, line, col)
  IN IF col > Len(line) THEN [end |-> "none", col |-> col, state |-> state]
     ELSE IF r.act = "break"
       THEN [end |-> "none", col |-> col, state |-> r.state]
     ELSE IF r.act = "continue" THEN CollectLine(line, col + 1, r.state)
     ELSE IF SignatureEnd(line[col]) # "none"
       THEN [end |-> SignatureEnd(line[col]), col |-> col, state |-> r.state]
     ELSE CollectLine(line, col + 1, r.state)

\* _collect_signature: "for idx in range(start_idx, min(len(lines),
\* start_idx + max_lines))", the lines from line idx on
RECURSIVE CollectScan(_, _, _, _, _)
CollectScan(lines, start_idx, idx, col, state) ==
  LET last == Min(Len(lines), start_idx + max_lines - 1)
      scan == CollectLine(lines[idx], col, state)
  IN IF scan.end = "none" /\ idx + 1 <= last
       THEN CollectScan(lines, start_idx, idx + 1, 1, reset_line(scan.state))
     ELSE IF scan.end = "definition"
       THEN [signature |-> JoinNl(SubSeq(lines, start_idx, idx)),
             end_idx |-> idx, brace_location |-> <<idx, scan.col>>]
     ELSE [signature |-> <<>>, end_idx |-> idx, brace_location |-> None]

_collect_signature(lines, start_idx) ==
  CollectScan(lines, start_idx, start_idx, 1, reset_line(ScanState))

\* end (exclusive) of the run of characters of class IsNameChar from p
RECURSIVE NameRunEnd(_, _)
NameRunEnd(s, p) ==
  IF p <= Len(s) /\ IsNameChar(s[p]) THEN NameRunEnd(s, p + 1) ELSE p

RECURSIVE SkipSpaces(_, _)
SkipSpaces(s, p) ==
  IF p <= Len(s) /\ IsSpace(s[p]) THEN SkipSpaces(s, p + 1) ELSE p

\* re.findall(r"([A-Za-z_][A-Za-z0-9_:~]*)\s*\(", s) from position p on:
\* the last match, or found when there is none
RECURSIVE LastMatch(_, _, _)
LastMatch(s, p, found) ==
  IF p > Len(s) THEN found
  ELSE IF IsIdentStart(s[p])
    THEN LET e == NameRunEnd(s, p + 1)
             q == SkipSpaces(s, e)
         IN IF q <= Len(s) /\ s[q] = "("
            THEN LastMatch(s, q + 1, SubSeq(s, p, e - 1))
            ELSE LastMatch(s, p + 1, found)
  ELSE LastMatch(s, p + 1, found)

_extract_function_name(signature) ==
  LastMatch(Collapse(signature, 1, <<>>), 1, None)

\* _find_opening_brace: the scan of line idx from column col on
RECURSIVE OpeningScan(_, _, _, _)
OpeningScan(lines, idx, col, state) ==
  LET line == lines[idx]
      r == TrackerStep(state, line, col)
      NextLine(st) ==
        IF idx + 1 > Len(lines) THEN None
        ELSE OpeningScan(lines, idx + 1, 1, reset_line(st))
  IN IF col > Len(line) THEN NextLine(state)
     ELSE IF r.act = "break" THEN NextLine(r.state)
     ELSE IF r.act = "continue" THEN OpeningScan(lines, idx, col + 1, r.state)
     ELSE IF line[col] = "{" THEN <<idx, col>>
     ELSE IF line[col] = ";" THEN None
     ELSE OpeningScan(lines, idx, col + 1, r.state)

_find_opening_brace(lines, start_line, start_col) ==
  OpeningScan(lines, start_line, Max(start_col, 1), reset_line(ScanState))

\* _find_block_end: the scan of line idx from column col on
RECURSIVE BlockScan(_, _, _, _, _)
BlockScan(lines, idx, col, state, brace_count) ==
  LET line == lines[idx]
      r == TrackerStep(state, line, col)
      NextLine(st) ==
        IF idx + 1 > Len(lines) THEN NoLine
        ELSE BlockScan(lines, idx + 1, 1, reset_line(st), brace_count)
  IN IF col > Len(line) THEN NextLine(state)
     ELSE IF r.act = "break" THEN NextLine(r.state)
     ELSE IF r.act = "continue"
       THEN BlockScan(lines, idx, col + 1, r.state, brace_count)
     ELSE IF line[col] = "{"
       THEN BlockScan(lines, idx, col + 1, r.state, brace_count + 1)
     ELSE IF line[col] = "}"
       THEN IF brace_count - 1 = 0 THEN idx
            ELSE BlockScan(lines, idx, col + 1, r.state, brace_count - 1)
     ELSE BlockScan(lines, idx, col + 1, r.state, brace_count)

\* _find_block_end with the opening brace counted twice
_find_block_end_CountFromOne(lines, start_line, start_col) ==
  BlockScan(lines, start_line, Max(start_col, 1), reset_line(ScanState), 1)

_find_block_end(lines, start_line, start_col) ==
  BlockScan(lines, start_line, Max(start_col, 1), reset_line(ScanState), 0)

\* ResumeAfterAbandon that leaves the loop
ResumeAfterAbandon_EndOfFile(lines, idx, end_idx) == Len(lines) + 1

\* ResumeAfterAbandon that stays on the candidate line
ResumeAfterAbandon_SameLine(lines, idx, end_idx) == idx

\* _find_function_blocks: "idx = max(idx + 1, end_idx)", the line at which
\* the loop resumes after a candidate is abandoned
ResumeAfterAbandon(lines, idx, end_idx) == Max(idx + 1, end_idx)

\* ResumeAfterEmit at the line after the candidate line
ResumeAfterEmit_NextLine(idx, end_line, end_idx) == idx + 1

\* _find_function_blocks: "idx = max(end_line + 1, end_idx + 1)", the line
\* at which the loop resumes after a unit is yielded
ResumeAfterEmit(idx, end_line, end_idx) == Max(end_line + 1, end_idx + 1)

\* _find_function_blocks: one turn of the loop at line idx: the line is
\* passed over, the candidate is abandoned, or <<name, start, end>> is
\* yielded; next is the line at which the loop resumes
FunctionStep(lines, idx) ==
  LET line == lines[idx]
      sig == _collect_signature(lines, idx)
      name == _extract_function_name(sig.signature)
      end_line == _find_block_end(lines, sig.brace_location[1],
                                  sig.brace_location[2])
      abandon == [kind |-> "abandoned", block |-> None,
                  next |-> ResumeAfterAbandon(lines, idx, sig.end_idx)]
  IN IF StartsWith(lstrip(line), <<"#","d","e","f","i","n","e">>)
       THEN [kind |-> "skipped", block |-> None, next |-> idx + 1]
     ELSE IF ~Contains(line, "(")
       THEN [kind |-> "skipped", block |-> None, next |-> idx + 1]
     ELSE IF sig.signature = <<>> THEN abandon
     ELSE IF name = None THEN abandon
     ELSE IF name \in CONTROL_KEYWORDS THEN abandon
     ELSE IF sig.brace_location = None THEN abandon
     ELSE IF end_line = NoLine THEN abandon
     ELSE [kind |-> "emitted", block |-> <<name, idx, end_line>>,
           next |-> ResumeAfterEmit(idx, end_line, sig.end_idx)]

\* what a turn of the loop yields
Yielded(step) == IF step.kind = "emitted" THEN <<step.block>> ELSE <<>>

\* _find_function_blocks: the loop from line idx on; yields <<name, start, end>>
RECURSIVE FunctionLoop(_, _)
FunctionRest(lines, step) == Yielded(step) \o FunctionLoop(lines, step.next)

FunctionLoop(lines, idx) ==
  IF idx > Len(lines) THEN <<>>
  ELSE FunctionRest(lines, FunctionStep(lines, idx))

_find_function_blocks(lines) == FunctionLoop(lines, 1)

\* re.search(r"\b(class|struct)\s+([A-Za-z_][A-Za-z0-9_]*)", line) at p
ClassKeywords == { <<"c","l","a","s","s">>, <<"s","t","r","u","c","t">> }

RECURSIVE WordRunEnd(_, _)
WordRunEnd(s, p) ==
  IF p <= Len(s) /\ IsWord(s[p]) THEN WordRunEnd(s, p + 1) ELSE p

ClassMatchAt(line, p) ==
  /\ p = 1 \/ ~IsWord(line[p - 1])
  /\ \E kw \in ClassKeywords :
       /\ OccursAt(line, kw, p)
       /\ LET q == SkipSpaces(line, p + Len(kw))
          IN q > p + Len(kw) /\ q <= Len(line) /\ IsIdentStart(line[q])

\* the leftmost match, with its groups 0 and 2
ClassSearch(line) ==
  IF \E p \in 1..Len(line) : ClassMatchAt(line, p)
  THEN LET p == CHOOSE p \in 1..Len(line) :
                  ClassMatchAt(line, p)
                  /\ \A j \in 1..(p - 1) : ~ClassMatchAt(line, j)
           kw == CHOOSE kw \in ClassKeywords : OccursAt(line, kw, p)
           q == SkipSpaces(line, p + Len(kw))
           e == WordRunEnd(line, q + 1)
       IN [found |-> TRUE, start |-> p, group0 |-> SubSeq(line, p, e - 1),
           group2 |-> SubSeq(line, q, e - 1)]
  ELSE [found |-> FALSE]

\* _find_class_blocks: the loop from line idx on; yields <<name, start, end>>
RECURSIVE ClassLoop(_, _)
ClassLoop(lines, idx) ==
  IF idx > Len(lines) THEN <<>>
  ELSE
    LET line == lines[idx]
        match == ClassSearch(line)
        brace_location ==
          _find_opening_brace(lines, idx, find(line, match.group0))
        end_line == _find_block_end(lines, brace_location[1], brace_location[2])
        rest == ClassLoop(lines, idx + 1)
    IN IF StartsWith(lstrip(line), <<"#">>) THEN rest
       ELSE IF ~match.found THEN rest
       ELSE IF brace_location = None THEN rest
       ELSE IF end_line = NoLine THEN rest
       ELSE << <<match.group2, idx, end_line>> >> \o rest

_find_class_blocks(lines) == ClassLoop(lines, 1)

\* _build_claim / ExtractedClaim with its provenance
_build_claim(source_path, lines, line_start, line_end, unit, symbol, language) ==
  [text_raw |-> iter_lines_slice(lines, line_start, line_end),
   source_path |-> source_path, language |-> language, unit |-> unit,
   symbol |-> symbol, line_start |-> line_start, line_end |-> line_end]

BuildAll(source_path, lines, unit, language, blocks) ==
  [i \in 1..Len(blocks) |->
     _build_claim(source_path, lines, blocks[i][2], blocks[i][3], unit,
                  blocks[i][1], language)]

\* Path(source_path).name: the text after the last "/"
RECURSIVE PathName(_)
PathName(source_path) ==
  IF Contains(source_path, "/")
  THEN PathName(SubSeq(source_path, find(source_path, <<"/">>) + 1,
                       Len(source_path)))
  ELSE source_path

\* FileUnit with the span counted from 0
FileUnit_FromZero(source_path, lines, language) ==
  _build_claim(source_path, lines, 0, Len(lines) - 1, "file",
               PathName(source_path), language)

\* the unit of kind file, of both extractors
FileUnit(source_path, lines, language) ==
  _build_claim(source_path, lines, 1, Len(lines), "file",
               PathName(source_path), language)

\* HeaderFallback without its test of function_blocks
HeaderFallback_AnyHeader(function_blocks, is_header) == is_header

\* extract_c_cpp_units: "if not function_blocks and is_header"
HeaderFallback(function_blocks, is_header) ==
  function_blocks = <<>> /\ is_header

extract_c_cpp_units(source_path, text, unit, language, is_header) ==
  LET lines == splitlines(text)
      total_lines == Len(lines)
      function_blocks == _find_function_blocks(lines)
  IN IF total_lines = 0 THEN <<>>
     ELSE IF unit = "file" THEN << FileUnit(source_path, lines, language) >>
     ELSE IF unit = "class"
       THEN BuildAll(source_path, lines, "class", language,
                     _find_class_blocks(lines))
     ELSE IF unit = "function"
       THEN IF HeaderFallback(function_blocks, is_header)
            THEN << FileUnit(source_path, lines, language) >>
            ELSE BuildAll(source_path, lines, "function", language,
                          function_blocks)
     ELSE <<>>

(***************************************************************************)
(* Indent-family unit locator                                              *)
(***************************************************************************)
\* len(line) - len(line.lstrip(" "))
RECURSIVE _indent_of(_)
_indent_of(line) ==
  IF line # <<>> /\ line[1] = " " THEN 1 + _indent_of(Tail(line)) ELSE 0

\* not line.strip()
IsBlank(line) == \A i \in 1..Len(line) : IsSpace(line[i])

KwDef == <<"d","e","f"," ">>

KwAsync == <<"a","s","y","n","c"," ","d","e","f"," ">>

KwClass == <<"c","l","a","s","s"," ">>

KwIf == <<"i","f"," ">>

\* the depth of the stack of the parser behind ast.parse (CPython, MAXSTACK)
MAXSTACK == 6000

\* the unary operators of one line
UnaryOperators(rest) == { i \in 1..Len(rest) : rest[i] = "-" }

\* the statement of a line nests deeper than the parser's stack: ast.parse
\* raises MemoryError, which is no SyntaxError
OverflowsParser(rest) ==
  Len(rest) >= MAXSTACK /\ Cardinality(UnaryOperators(rest)) >= MAXSTACK

\* ast.parse, one logical line: the statement that a line of PyLines holds.
\* header: the statement ends in ":" and its block follows on later lines.
PyLineInfo(line) ==
  LET n == _indent_of(line)
      rest == SubSeq(line, n + 1, Len(line))
      kw == IF StartsWith(rest, KwAsync) THEN KwAsync
            ELSE IF StartsWith(rest, KwDef) THEN KwDef
            ELSE IF StartsWith(rest, KwClass) THEN KwClass
            ELSE IF StartsWith(rest, KwIf) THEN KwIf
            ELSE <<>>
      kind == IF kw = KwAsync THEN "AsyncFunctionDef"
              ELSE IF kw = KwDef THEN "FunctionDef"
              ELSE IF kw = KwClass THEN "ClassDef"
              ELSE IF kw = KwIf THEN "If"
              ELSE IF OverflowsParser(rest) THEN "overflow"
              ELSE IF Contains(rest, ")") /\ ~Contains(rest, "(") THEN "error"
              ELSE "Stmt"
      e == WordRunEnd(rest, Len(kw) + 1)
  IN [indent |-> n, kind |-> kind,
      name |-> IF kw \in {KwAsync, KwDef, KwClass}
               THEN SubSeq(rest, Len(kw) + 1, e - 1) ELSE <<>>,
      header |-> kw # <<>> /\ rest[Len(rest)] = ":"]

\* ast.parse, the block structure: indents and blocks are the stacks of open
\* indentation levels and of the lines that opened them (0 is the Module);
\* parent[i] is the line of the statement enclosing line i, -1 on a blank line
RECURSIVE PyBlocks(_, _, _)
PyBlocks(lines, i, st) ==
  IF ~st.ok THEN st
  ELSE IF i > Len(lines) THEN [st EXCEPT !.ok = ~st.expect]
  ELSE IF IsBlank(lines[i])
    THEN PyBlocks(lines, i + 1, [st EXCEPT !.parent = Append(@, -1)])
  ELSE
    LET info == PyLineInfo(lines[i])
        n == info.indent
        top == st.indents[Len(st.indents)]
        k == CHOOSE k \in 1..Len(st.indents) : st.indents[k] = n
        opened == [st EXCEPT !.indents = Append(@, n),
                             !.blocks = Append(@, st.pending)]
        closed == [st EXCEPT !.indents = SubSeq(@, 1, k),
                             !.blocks = SubSeq(@, 1, k)]
        Place(s) ==
          PyBlocks(lines, i + 1,
                   [s EXCEPT !.parent = Append(@, s.blocks[Len(s.blocks)]),
                             !.expect = info.header, !.pending = i])
    IN IF info.kind = "error" THEN [st EXCEPT !.ok = FALSE]
       ELSE IF info.kind = "overflow"
         THEN [st EXCEPT !.ok = FALSE, !.exc = "MemoryError"]
       ELSE IF st.expect
         THEN IF n > top THEN Place(opened) ELSE [st EXCEPT !.ok = FALSE]
       ELSE IF n > top THEN [st EXCEPT !.ok = FALSE]
       ELSE IF \E j \in 1..Len(st.indents) : st.indents[j] = n
         THEN Place(closed)
       ELSE [st EXCEPT !.ok = FALSE]

\* number of enclosing statements of line i, the Module included
RECURSIVE PyDepth(_, _)
PyDepth(parent, i) == IF i = 0 THEN 0 ELSE 1 + PyDepth(parent, parent[i])

\* end_lineno of the statement of line h: the last line of its block
RECURSIVE PyBlockEnd(_, _, _, _)
PyBlockEnd(lines, h, i, last) ==
  IF i > Len(lines) THEN last
  ELSE IF IsBlank(lines[i]) THEN PyBlockEnd(lines, h, i + 1, last)
  ELSE IF _indent_of(lines[i]) <= _indent_of(lines[h]) THEN last
  ELSE PyBlockEnd(lines, h, i + 1, i)

\* one statement of the tree, with the parent that _iter_function_nodes
\* attaches; end_meta tells whether the parser supplies end_lineno
PyNode(lines, parent, end_meta, i) ==
  LET info == PyLineInfo(lines[i])
      par == PyLineInfo(lines[Max(parent[i], 1)])
  IN [kind |-> info.kind, name |-> info.name, lineno |-> i,
      end_lineno |-> IF end_meta THEN PyBlockEnd(lines, i, i + 1, i)
                     ELSE NoLine,
      parent_kind |-> IF parent[i] = 0 THEN "Module" ELSE par.kind,
      parent_name |-> IF parent[i] = 0 THEN <<>> ELSE par.name]

\* the statements at depth d of the tree, in line order
RECURSIVE PyLevel(_, _, _, _, _)
PyLevel(lines, parent, end_meta, d, i) ==
  IF i > Len(lines) THEN <<>>
  ELSE IF parent[i] >= 0 /\ PyDepth(parent, i) = d
    THEN <<PyNode(lines, parent, end_meta, i)>>
         \o PyLevel(lines, parent, end_meta, d, i + 1)
  ELSE PyLevel(lines, parent, end_meta, d, i + 1)

\* ast.walk(tree): breadth-first, level after level
RECURSIVE PyWalk(_, _, _, _)
PyWalk(lines, parent, end_meta, d) ==
  IF d > Len(lines) THEN <<>>
  ELSE PyLevel(lines, parent, end_meta, d, 1)
       \o PyWalk(lines, parent, end_meta, d + 1)

\* a parsed tree, or the exception of ast.parse
PyTree(lines, st, end_meta) ==
  IF st.ok
  THEN [ok |-> TRUE, walk |-> PyWalk(lines, st.parent, end_meta, 1),
        exc |-> NoError]
  ELSE [ok |-> FALSE, walk |-> <<>>, exc |-> st.exc]

\* ast.parse(text) followed by ast.walk(tree)
ast_parse(text, lines, end_meta) ==
  PyTree(lines,
         PyBlocks(lines, 1,
                  [ok |-> TRUE, exc |-> "SyntaxError", indents |-> <<0>>,
                   blocks |-> <<0>>, expect |-> FALSE, pending |-> 0,
                   parent |-> <<>>]),
         end_meta)

IsClassDef(node) == node.kind = "ClassDef"

IsFunctionNode(node) ==
  /\ node.kind \in {"FunctionDef", "AsyncFunctionDef"}
  /\ node.parent_kind \in {"Module", "ClassDef"}

IsTopClass(node) == IsClassDef(node) /\ node.parent_kind = "Module"

_iter_class_nodes(tree) == SelectSeq(tree.walk, IsTopClass)

_iter_function_nodes(tree) == SelectSeq(tree.walk, IsFunctionNode)

_fallback_end_lineno(line_start, lines) ==
  LET indent == _indent_of(lines[line_start])
      Stops(idx) == ~IsBlank(lines[idx]) /\ _indent_of(lines[idx]) <= indent
  IN IF line_start > Len(lines) THEN Len(lines)
     ELSE IF \E idx \in (line_start + 1)..Len(lines) : Stops(idx)
       THEN (CHOOSE idx \in (line_start + 1)..Len(lines) :
               Stops(idx) /\ \A j \in (line_start + 1)..(idx - 1) : ~Stops(j)) - 1
     ELSE Len(lines)

_node_line_span(node, lines) ==
  LET line_start == node.lineno
      end_lineno == IF node.end_lineno = NoLine
                    THEN _fallback_end_lineno(line_start, lines)
                    ELSE node.end_lineno
  IN <<line_start, Max(line_start, Min(end_lineno, Len(lines)))>>

\* PySymbol without the qualification of methods
PySymbol_Bare(node) == node.name

\* extract_python_units: the symbol of a function node
PySymbol(node) ==
  IF node.parent_kind = "ClassDef"
  THEN node.parent_name \o <<".">> \o node.name
  ELSE node.name

\* _build_claim over the span of one node
PyClaim(source_path, lines, span, kind, symbol) ==
  _build_claim(source_path, lines, span[1], span[2], kind, symbol, "python")

PyClassClaims(source_path, lines, classes) ==
  [i \in 1..Len(classes) |->
     PyClaim(source_path, lines, _node_line_span(classes[i], lines),
             "class", classes[i].name)]

PyFunctionClaims(source_path, lines, functions) ==
  [i \in 1..Len(functions) |->
     PyClaim(source_path, lines, _node_line_span(functions[i], lines),
             "function", PySymbol(functions[i]))]

PyUnits(source_path, lines, unit, tree) ==
  IF unit = "file"
    THEN << FileUnit(source_path, lines, "python") >>
  ELSE IF ~tree.ok THEN <<>>
  ELSE IF unit = "class"
    THEN PyClassClaims(source_path, lines, _iter_class_nodes(tree))
  ELSE IF unit = "function"
    THEN PyFunctionClaims(source_path, lines, _iter_function_nodes(tree))
  ELSE <<>>

PyExtract(source_path, text, lines, unit, end_meta) ==
  PyUnits(source_path, lines, unit,
          ast_parse(text, SourceLines(text), end_meta))

extract_python_units(source_path, text, unit, end_meta) ==
  PyExtract(source_path, text, splitlines(text), unit, end_meta)

\* extract_python_units: the exception that leaves it, NoError when it
\* returns;
\* the file unit is returned before ast.parse, "except SyntaxError" catches
\* the SyntaxError alone
Uncaught(exc) == IF exc = "SyntaxError" THEN NoError ELSE exc

PyRaised(text, unit) ==
  IF unit = "file" THEN NoError
  ELSE Uncaught(ast_parse(text, SourceLines(text), TRUE).exc)

(***************************************************************************)
(* Inputs                                                                  *)
(***************************************************************************)
MaxLines == 3

\* lines of C-family text
CLines ==
  { <<"i","n","t"," ","f","(",")"," ","{">>,
    <<"i","n","t"," ","g","(",")",";">>,
    <<"}">>,
    <<"i","f"," ","(","g","(","x",")",")"," ","{">>,
    <<"w","h","i","l","e"," ","(","x",")"," ","{">>,
    <<"/","/"," ","i","n","t"," ","h","(",")"," ","{">>,
    <<"/","*">>,
    <<"*","/">>,
    <<"s"," ","="," ","\"","\\","\"","}","\"",";"," ",
      "c"," ","="," ","'","{","'",";"," ","/","/"," ","}">>,
    <<"c","l","a","s","s"," ","W"," ","{">>,
    <<"s","t","r","u","c","t"," ","S",";">>,
    <<"#","d","e","f","i","n","e"," ","M","(","x",")"," ","{">>,
    <<"i","n","t"," ","f","(",")"," ","{"," ","/","*","/"," ","}">>,
    <<"i","n","t"," ","f","(",")"," ","{"," ","r","e","t","u","r","n"," ","g","(",")",";"," ","}">>,
    <<"i","n","t"," ","f","(",")"," ","/","*"," ","g","(",")"," ","*","/">>,
    <<"{">> }

\* the texts of tests/test_code_extract.py
AddText ==
  <<"i","n","t"," ","a","d","d","(","i","n","t"," ","a",","," ","i","n","t"," ","b",")"," ","{","\n"," "," "," "," ","r","e","t","u","r","n"," ","a"," ","+"," ","b",";","\n","}","\n">>

WidgetText ==
  <<"c","l","a","s","s"," ","W","i","d","g","e","t"," ","{","\n","p","u","b","l","i","c",":","\n"," "," "," "," ","v","o","i","d"," ","r","u","n","(",")",";","\n","}",";","\n">>

ConstantsText ==
  <<"#","d","e","f","i","n","e"," ","M","A","X","_","V","A","L","U","E"," ","1","0","\n">>

\* a forward declaration after a brace, the text "class W" standing earlier
\* in the line within a longer word
SubclassText ==
  <<"s","u","b","c","l","a","s","s"," ","W"," ","{"," ","c","l","a","s","s"," ","W",";","\n","}","\n">>

\* every line followed by "\n"
RECURSIVE TextOf(_)
TextOf(ls) ==
  IF ls = <<>> THEN <<>> ELSE ls[1] \o <<"\n">> \o TextOf(Tail(ls))

CTexts ==
  { TextOf(ls) : ls \in UNION { [1..n -> CLines] : n \in 0..MaxLines } }
    \cup {AddText, WidgetText, ConstantsText, SubclassText}

\* lines of indent-family text
PyLines ==
  { <<"d","e","f"," ","f","(",")",":"," ","p","a","s","s">>,
    <<" "," "," "," ","d","e","f"," ","f","(",")",":"," ","p","a","s","s">>,
    <<" "," "," "," "," "," "," "," ","d","e","f"," ","g","(",")",":"," ","p","a","s","s">>,
    <<"c","l","a","s","s"," ","C",":">>,
    <<" "," "," "," ","c","l","a","s","s"," ","D",":">>,
    <<"d","e","f"," ","h","(",")",":">>,
    <<" "," "," "," ","p","a","s","s">>,
    <<>>,
    <<" "," "," "," ","a","s","y","n","c"," ","d","e","f"," ","m","(",")",":"," ","p","a","s","s">>,
    <<")">>,
    <<"i","f"," ","x",":">>,
    <<"p","a","s","s">> }

SampleText ==
  <<"d","e","f"," ","t","o","p","(",")",":","\n"," "," "," "," ","r","e","t","u","r","n"," ","1","\n","\n","\n","c","l","a","s","s"," ","S","a","m","p","l","e",":","\n"," "," "," "," ","d","e","f"," ","m","e","t","h","o","d","(","s","e","l","f",")",":","\n"," "," "," "," "," "," "," "," ","r","e","t","u","r","n"," ","2","\n">>

\* a form feed at the end of the line before a definition
FormFeedText ==
  <<"x"," ","="," ","1"," ","\f","\n","d","e","f"," ","f","(",")",":","\n"," "," "," "," ","r","e","t","u","r","n"," ","1","\n">>

PyTexts ==
  { TextOf(ls) : ls \in UNION { [1..n -> PyLines] : n \in 0..MaxLines } }
    \cup {SampleText, FormFeedText}

Units == {"file", "class", "function"}

PyPaths == { <<"a",".","p","y">> }

CPaths == { <<"a",".","c">>, <<"a",".","h","p","p">> }

\* Path.suffix.lower() of a path with one "." : the text from the "." on
suffix(path) == SubSeq(path, find(path, <<".">>), Len(path))

LANGUAGE_EXTENSIONS ==
  [python |-> { <<".","p","y">> },
   c |-> { <<".","c">>, <<".","h">> },
   cpp |-> { <<".","c","c">>, <<".","c","p","p">>, <<".","c","x","x">>, <<".","h","p","p">>, <<".","h","h">> }]

detect_language(path) ==
  IF suffix(path) \in LANGUAGE_EXTENSIONS.python THEN "python"
  ELSE IF suffix(path) \in LANGUAGE_EXTENSIONS.c THEN "c"
  ELSE IF suffix(path) \in LANGUAGE_EXTENSIONS.cpp THEN "cpp"
  ELSE "none"

header_of(path) == suffix(path) \in { <<".","h">>, <<".","h","p","p">>, <<".","h","h">> }

(***************************************************************************)
(* One file through the extractor                                          *)
(***************************************************************************)
\* The file in hand and the arguments of the extractor:
\*   source_path, text   the file, as the scanner and the loader hand it over
\*   unit                the requested unit kind
\*   end_meta            whether the ast of the interpreter carries end_lineno
\*   extracted           the units returned for the file
\*   pc                  "read" before the extractor is called, "done" after;
\*                       within a run "idle", "files", "write"
VARIABLES source_path, text, unit, end_meta, pc, extracted

\* A run of code_extract_command:
\*   repo            the paths under repo_root, each with the text read at it
\*   unreadable      the files whose read fails with an OSError
\*   top, save       the arguments --top and --save
\*   language        the argument --language
\*   include         the argument --include, None when it is not given
\*   exclude         the argument --exclude, None when it is not given
\*   max_bytes       the argument --max-bytes
\*   data            the bytes that read_text_with_fallback reads
\*   encoding        its encoding argument
\*   sha1            the checksum it returns
\*   tracker         the ScanState of a scanning loop
\*   tracker_loop    the scanning loop that runs, "none" outside
\*   ahead           the character the loop is at and the one after it in
\*                   the line, <<>> at the end of the line
\*   lines_read      the lines _collect_signature has read
\*   open_braces     brace_count of _find_block_end
\*   fallback_node   the line of the node given to _node_line_span without
\*                   end-line metadata, 0 before
\*   fallback_span   the <<line_start, line_end>> it returns
\*   loop_idx        idx of _find_function_blocks: the line its loop is at
\*   yielded         the <<name, start, end>> it has yielded so far
\*   run             the number of the run, 1 or 2; 3 once both are over
\*   now             the clock read by build_claim
\*   matches         the set of paths that the include patterns match
\*   scanned         the result of the scan
\*   scan_summary    the ScanSummary of the scan
\*   file_idx        the position of the loop in scanned
\*   id_counters     the counters of the ClaimIdGenerator of the run
\*   claims          the claims built so far
\*   extracted_count the count of units the loop keeps
\*   decode_error_count  the count of files the loop could not decode
\*   output          the file at output_path
\*   first_output    what the file held when the first run was over
\*   error           the exception that ended the last run, NoError when the
\*                   command returned
VARIABLES repo, unreadable, top, save, language, include, exclude, max_bytes,
          data, encoding, sha1, tracker, tracker_loop, ahead, lines_read,
          open_braces, fallback_node, fallback_span, loop_idx,
          yielded, run, now,
          matches, scanned, scan_summary, file_idx, id_counters, claims,
          extracted_count, decode_error_count, output, first_output, error

file_vars == <<source_path, text, unit, end_meta, pc, extracted>>

\* the tree under repo_root and the arguments of the command
command_vars ==
  <<repo, unreadable, top, save, language, include, exclude, max_bytes>>

\* one call of read_text_with_fallback
read_vars == <<data, encoding, sha1>>

\* the loop of _find_function_blocks
block_vars == <<loop_idx, yielded>>

\* _node_line_span on its own
span_vars == <<fallback_node, fallback_span>>

\* a scanning loop on its own
tracker_vars == <<tracker, tracker_loop, ahead, lines_read, open_braces>>

\* what no step of a run changes
given_vars ==
  <<command_vars, read_vars, block_vars, span_vars, tracker_vars>>

\* what one run computes
loop_vars == <<matches, scanned, scan_summary, file_idx, id_counters, claims,
               extracted_count, decode_error_count>>

run_vars == <<given_vars, loop_vars, run, now, output, first_output, error>>

vars == <<file_vars, run_vars>>

\* the default of --max-bytes
DEFAULT_MAX_BYTES == 1000000

Categories == {"PY", "C", "CPP"}

\* ClaimIdGenerator.__init__
ClaimIdGenerator == [c \in Categories |-> 0]

NoOutput == [exists |-> FALSE, claims |-> <<>>]

\* ScanSummary of a scan that met no path
NoSummary ==
  [total_files_matched |-> 0, skipped_excluded |-> 0, skipped_too_large |-> 0]

\* no call of read_text_with_fallback on its own
NoRead == data = <<>> /\ encoding = "utf-8" /\ sha1 = None

\* no scanning loop on its own
NoTracker ==
  /\ tracker = ScanState /\ tracker_loop = "none" /\ ahead = <<>>
  /\ lines_read = 0 /\ open_braces = 0

\* no call of _node_line_span on its own
NoSpan == fallback_node = 0 /\ fallback_span = <<>>

\* no loop of _find_function_blocks on its own
NoLoop == loop_idx = 0 /\ yielded = <<>>

NoRun ==
  /\ NoRead /\ NoLoop /\ NoSpan /\ NoTracker
  /\ repo = <<>> /\ unreadable = {} /\ top = None /\ save = FALSE
  /\ language = "all" /\ include = None /\ exclude = None
  /\ max_bytes = DEFAULT_MAX_BYTES /\ run = 0 /\ now = 0
  /\ matches = {} /\ scanned = <<>> /\ scan_summary = NoSummary
  /\ file_idx = 0 /\ id_counters = ClaimIdGenerator /\ claims = <<>>
  /\ extracted_count = 0 /\ decode_error_count = 0
  /\ output = NoOutput /\ first_output = <<>> /\ error = NoError

Init ==
  /\ \/ source_path \in CPaths /\ text \in CTexts /\ end_meta = TRUE
     \/ source_path \in PyPaths /\ text \in PyTexts /\ end_meta \in BOOLEAN
  /\ unit \in Units
  /\ pc = "read"
  /\ extracted = <<>>
  /\ NoRun

\* cli.py: the python branch of the language test
ExtractPython ==
  /\ pc = "read"
  /\ detect_language(source_path) = "python"
  /\ extracted' = extract_python_units(source_path, text, unit, end_meta)
  /\ pc' = "done"
  /\ UNCHANGED <<source_path, text, unit, end_meta, run_vars>>

\* cli.py: the else branch of the language test
ExtractCCpp ==
  /\ pc = "read"
  /\ detect_language(source_path) # "python"
  /\ extracted' = extract_c_cpp_units(source_path, text, unit,
                                      detect_language(source_path),
                                      header_of(source_path))
  /\ pc' = "done"
  /\ UNCHANGED <<source_path, text, unit, end_meta, run_vars>>

Next == ExtractPython \/ ExtractCCpp

Spec == Init /\ [][Next]_vars

(***************************************************************************)
(* Two runs of code_extract_command over the same files                    *)
(***************************************************************************)
MaxTop == 2

AlphaText ==
  <<"d","e","f"," ","a","l","p","h","a","(",")",":","\n"," "," "," "," ","r","e","t","u","r","n"," ","\"","a","l","p","h","a","\"","\n">>

BetaText ==
  <<"i","n","t"," ","b","e","t","a","(",")"," ","{","\n"," "," "," "," ","r","e","t","u","r","n"," ","4","2",";","\n","}","\n">>

AlphaPath == <<"s","r","c","/","a","l","p","h","a",".","p","y">>

BetaPath == <<"s","r","c","/","b","e","t","a",".","c","p","p">>

AddPath == <<"l","i","b","/","a","d","d",".","c","c">>

\* a symbolic link to the file at AlphaPath
LinkPath == <<"l","i","b","/","a",".","p","y">>

RunPaths == {AlphaPath, BetaPath, AddPath}

\* a text with an unmatched ")"
BrokenText ==
  <<"d","e","f"," ","a","l","p","h","a","(",")",":","\n"," "," "," "," ","r","e","t","u","r","n"," ",")","\n">>

\* a statement nested as deep as the stack of the parser, closed by an
\* unmatched ")"
DeepText ==
  <<"x"," ","="," ">> \o [i \in 1..MAXSTACK |-> "-"] \o <<")","\n">>

\* a method, then a function of the module
MethodFirstText ==
  <<"c","l","a","s","s"," ","C",":","\n"," "," "," "," ","d","e","f"," ","f","(",")",":"," ","p","a","s","s","\n","d","e","f"," ","g","(",")",":"," ","p","a","s","s","\n">>

RunTexts(path) ==
  IF detect_language(path) = "python"
  THEN {AlphaText, SampleText, BrokenText, DeepText, MethodFirstText}
  ELSE IF path = BetaPath THEN {BetaText, AddText \o BetaText}
  ELSE {AddText}

\* Path.resolve(): the file that a path names, links followed
Resolve(path) == IF path = LinkPath THEN AlphaPath ELSE path

\* the number of paths under repo_root at most
MaxFiles == 3

\* the trees under repo_root: each path of RunPaths absent or with a text,
\* the link absent or naming a file that is there
Repos ==
  UNION { { f \in [D -> UNION { RunTexts(q) : q \in RunPaths }] :
              \A q \in D : f[q] \in RunTexts(Resolve(q))
                             /\ f[q] = f[Resolve(q)] } :
          D \in { E \in SUBSET (RunPaths \cup {LinkPath}) :
                    /\ Cardinality(E) <= MaxFiles
                    /\ \A q \in E : Resolve(q) \in E } }

\* the files that cannot be read: none, or the file at BetaPath
Unreadables(tree) ==
  {{}} \cup { {q} : q \in { p \in DOMAIN tree \cap {BetaPath} : tree[p] = BetaText } }

\* the characters of paths in the order of their code points
CodePoints ==
  <<".", "/", "a", "b", "c", "d", "e", "f", "g", "h", "i", "j", "k", "l", "m",
    "n", "o", "p", "q", "r", "s", "t", "u", "v", "w", "x", "y", "z">>

\* the rank of each character of CodePoints
Ranks ==
  [c \in { CodePoints[i] : i \in 1..Len(CodePoints) } |->
     CHOOSE i \in 1..Len(CodePoints) : CodePoints[i] = c]

Ord(c) == Ranks[c]

\* a < b for two strings
RECURSIVE StrLess(_, _)
StrLess(a, b) ==
  IF b = <<>> THEN FALSE
  ELSE IF a = <<>> THEN TRUE
  ELSE IF a[1] = b[1] THEN StrLess(Tail(a), Tail(b))
  ELSE Ord(a[1]) < Ord(b[1])

\* the orders in which a set may be enumerated
Enumerations(S) ==
  { f \in [1..Cardinality(S) -> S] :
      \A i, j \in 1..Cardinality(S) : f[i] = f[j] => i = j }

\* scan_files_with_summary without its sort
Unsorted(found) == found

\* scan_files_with_summary: sorted(matches, key=lambda item: item.as_posix())
SortMatches(found) == SortSeq(found, StrLess)

DEFAULT_INCLUDE_C == << <<"*","*","/","*",".","c">>, <<"*","*","/","*",".","h">> >>

DEFAULT_INCLUDE_CPP ==
  << <<"*","*","/","*",".","c","c">>, <<"*","*","/","*",".","c","p","p">>, <<"*","*","/","*",".","c","x","x">>,
     <<"*","*","/","*",".","h","p","p">>, <<"*","*","/","*",".","h","h">> >>

DEFAULT_INCLUDE_PYTHON == << <<"*","*","/","*",".","p","y">> >>

\* the languages for which default_includes returns patterns; it raises a
\* ValueError for any other
SupportedLanguages == {"python", "c", "cpp", "all"}

default_includes(language_filter) ==
  IF language_filter = "python" THEN DEFAULT_INCLUDE_PYTHON
  ELSE IF language_filter = "c" THEN DEFAULT_INCLUDE_C
  ELSE IF language_filter = "cpp" THEN DEFAULT_INCLUDE_CPP
  ELSE DEFAULT_INCLUDE_C \o DEFAULT_INCLUDE_CPP \o DEFAULT_INCLUDE_PYTHON

\* an --include that names the sources of the three languages
IncludeGiven == << <<"*","*","/","*",".","p","y">>, <<"*","*","/","*",".","c","p","p">>, <<"*","*","/","*",".","c","c">>, <<"*","*","/","*",".","c">> >>

\* s.endswith(p)
EndsWith(s, p) ==
  Len(s) >= Len(p) /\ SubSeq(s, Len(s) - Len(p) + 1, Len(s)) = p

\* glob.glob(pattern, recursive=True) for a pattern "**/*" and an extension:
\* the paths at any depth whose name ends with the extension
Glob(pattern, paths) ==
  { p \in paths : EndsWith(p, SubSeq(pattern, 5, Len(pattern))) }

\* the set that the loop over the include patterns builds
GlobAll(includes, paths) ==
  UNION { Glob(includes[i], paths) : i \in 1..Len(includes) }

DEFAULT_EXCLUDES ==
  << <<"*","*","/",".","g","i","t","/","*","*">>,
     <<"*","*","/",".","v","e","n","v","/","*","*">>,
     <<"*","*","/","v","e","n","v","/","*","*">>,
     <<"*","*","/","_","_","p","y","c","a","c","h","e","_","_","/","*","*">>,
     <<"*","*","/","b","u","i","l","d","/","*","*">>,
     <<"*","*","/","d","i","s","t","/","*","*">>,
     <<"*","*","/","n","o","d","e","_","m","o","d","u","l","e","s","/","*","*">>,
     <<"*","*","/",".","m","y","p","y","_","c","a","c","h","e","/","*","*">>,
     <<"*","*","/",".","p","y","t","e","s","t","_","c","a","c","h","e","/","*","*">>,
     <<"*","*","/",".","r","u","f","f","_","c","a","c","h","e","/","*","*">>,
     <<"*","*","/",".","t","o","x","/","*","*">>,
     <<"*","*","/","o","u","t","p","u","t","s","/","*","*">>,
     <<"*","*","/","s","a","m","p","l","e","s","/","o","u","t","p","u","t","/","*","*">>,
     <<"*","*","/","s","a","m","p","l","e","s","/","i","n","p","u","t","/","*","*">> >>

\* output_rel: "out.jsonl" under repo_root
OutputRel == <<"o","u","t",".","j","s","o","n","l">>

\* fnmatch.fnmatch(name, pat) for patterns of "*", "?" and plain characters
RECURSIVE fnmatch(_, _)
fnmatch(name, pat) ==
  IF pat = <<>> THEN name = <<>>
  ELSE IF pat[1] = "*"
    THEN fnmatch(name, Tail(pat)) \/ (name # <<>> /\ fnmatch(Tail(name), pat))
  ELSE /\ name # <<>>
       /\ pat[1] = "?" \/ pat[1] = name[1]
       /\ fnmatch(Tail(name), Tail(pat))

\* _is_excluded without the anchored form
_is_excluded_RelativeOnly(rel_path, excludes) ==
  \E i \in 1..Len(excludes) : fnmatch(rel_path, excludes[i])

_is_excluded(rel_path, excludes) ==
  \E i \in 1..Len(excludes) :
    \/ fnmatch(rel_path, excludes[i])
    \/ fnmatch(<<"/">> \o rel_path, excludes[i])

\* the excludes of a run without --exclude
RunExcludes == DEFAULT_EXCLUDES \o <<OutputRel>>

\* _is_excluded(rel_path, RunExcludes) over the paths of the trees
RunExcluded == { p \in RunPaths : _is_excluded(p, RunExcludes) }


\* ScannedFile: language and is_header come from the matched path,
\* relative_path from the resolved one
ScannedFile(path) ==
  [relative_path |-> Resolve(path), language |-> detect_language(path),
   is_header |-> header_of(path)]

\* scan_files_with_summary, the loop over the sorted matches from path k on
\* excluded is the set of the relative paths for which _is_excluded holds
\* with the excludes of the call, limit its max_bytes
RECURSIVE ScanLoop(_, _, _, _, _, _, _)
ScanLoop(paths, k, tree, excluded, limit, language_filter, st) ==
  IF k > Len(paths) THEN st
  ELSE IF Resolve(paths[k]) \in excluded
    THEN ScanLoop(paths, k + 1, tree, excluded, limit, language_filter,
                  [st EXCEPT !.matched_files = @ + 1,
                             !.skipped_excluded = @ + 1])
  ELSE IF Len(tree[paths[k]]) > limit
    THEN ScanLoop(paths, k + 1, tree, excluded, limit, language_filter,
                  [st EXCEPT !.matched_files = @ + 1,
                             !.skipped_too_large = @ + 1])
  ELSE IF \/ detect_language(paths[k]) = "none"
          \/ language_filter # "all"
             /\ detect_language(paths[k]) # language_filter
    THEN ScanLoop(paths, k + 1, tree, excluded, limit, language_filter,
                  [st EXCEPT !.matched_files = @ + 1])
  ELSE ScanLoop(paths, k + 1, tree, excluded, limit, language_filter,
                [st EXCEPT !.matched_files = @ + 1,
                           !.scanned = Append(@, ScannedFile(paths[k]))])

\* scan_files_with_summary from the sorted matches on
scan_files_with_summary(paths, tree, excluded, limit, language_filter) ==
  ScanLoop(paths, 1, tree, excluded, limit, language_filter,
           [scanned |-> <<>>, matched_files |-> 0, skipped_excluded |-> 0,
            skipped_too_large |-> 0])

\* ScanSummary(total_files_matched=matched_files, ...)
ScanSummary(result) ==
  [total_files_matched |-> result.matched_files,
   skipped_excluded |-> result.skipped_excluded,
   skipped_too_large |-> result.skipped_too_large]

\* _category_from_language
_category_from_language(lang) ==
  IF lang = "python" THEN "PY"
  ELSE IF lang = "c" THEN "C"
  ELSE "CPP"

\* the extractor call of the loop over scanned
ExtractEntry(entry, content) ==
  IF entry.language = "python"
  THEN extract_python_units(entry.relative_path, content, unit, end_meta)
  ELSE extract_c_cpp_units(entry.relative_path, content, unit,
                           entry.language, entry.is_header)

\* the exception that leaves the extractor call, NoError when it returns
EntryRaised(entry, content) ==
  IF entry.language = "python" THEN PyRaised(content, unit) ELSE NoError

\* ClaimIdGenerator.next_id and build_claim, for the units of one file from
\* unit k on; the loop leaves when top is set and reached
RECURSIVE BuildClaims(_, _, _, _)
BuildClaims(units, k, category, st) ==
  IF k > Len(units) THEN st
  ELSE
    LET number == st.id_counters[category] + 1
        claim == [claim_id |-> <<category, number>>,
                  text_raw |-> units[k].text_raw,
                  source_path |-> units[k].source_path,
                  unit |-> units[k].unit,
                  symbol |-> units[k].symbol,
                  line_start |-> units[k].line_start,
                  line_end |-> units[k].line_end,
                  created_at |-> now]
        st2 == [id_counters |-> [st.id_counters EXCEPT ![category] = number],
                claims |-> Append(st.claims, claim),
                extracted_count |-> st.extracted_count + 1]
    IN IF top # None /\ st2.extracted_count >= top[1] THEN st2
       ELSE BuildClaims(units, k + 1, category, st2)

\* the values of --unit: the three kinds and one that is none of them
UnitArgs == Units \cup {"method"}

\* the values of --language
LanguageArgs == {"all", "python", "java"}

RunInit ==
  /\ repo \in Repos
  /\ unreadable \in Unreadables(repo)
  /\ unit \in UnitArgs
  /\ language \in LanguageArgs
  /\ include \in {None, IncludeGiven}
  /\ exclude = None /\ max_bytes = DEFAULT_MAX_BYTES
  /\ NoRead /\ NoLoop /\ NoSpan /\ NoTracker
  /\ top \in {None} \cup { <<n>> : n \in 0..MaxTop }
  /\ save \in BOOLEAN
  /\ end_meta = TRUE
  /\ run = 1 /\ now = 0
  /\ pc = "idle"
  /\ source_path = <<>> /\ text = <<>> /\ extracted = <<>>
  /\ matches = {} /\ scanned = <<>> /\ scan_summary = NoSummary
  /\ file_idx = 0 /\ id_counters = ClaimIdGenerator /\ claims = <<>>
  /\ extracted_count = 0 /\ decode_error_count = 0
  /\ output = NoOutput /\ first_output = <<>> /\ error = NoError

\* code_extract_command, "includes = include or default_includes(language)":
\* the ValueError of default_includes ends the command
RejectLanguage ==
  /\ pc = "idle" /\ run \in {1, 2}
  /\ include = None /\ language \notin SupportedLanguages
  /\ error' = "ValueError"
  /\ run' = run + 1
  /\ first_output' = IF run = 1 THEN output.claims ELSE first_output
  /\ UNCHANGED <<file_vars, given_vars, loop_vars, now, output>>

\* code_extract_command, "if save and output_path.exists()": the claims on
\* disk are kept and the command returns
ReuseSaved ==
  /\ pc = "idle" /\ run \in {1, 2}
  /\ include # None \/ language \in SupportedLanguages
  /\ save /\ output.exists
  /\ error' = NoError
  /\ run' = run + 1
  /\ first_output' = IF run = 1 THEN output.claims ELSE first_output
  /\ UNCHANGED <<file_vars, given_vars, loop_vars, now, output>>

\* code_extract_command up to the loop: the scan, then a new generator and
\* an empty list of claims
StartRun ==
  /\ pc = "idle" /\ run \in {1, 2}
  /\ include # None \/ language \in SupportedLanguages
  /\ ~(save /\ output.exists)
  /\ matches' = GlobAll(IF include # None THEN include
                        ELSE default_includes(language), DOMAIN repo)
  /\ \E found \in Enumerations(matches') :
       \E result \in {scan_files_with_summary(SortMatches(found), repo,
                                               RunExcluded, max_bytes,
                                               language)} :
         /\ scanned' = result.scanned
         /\ scan_summary' = ScanSummary(result)
         /\ pc' = IF result.scanned = <<>> THEN "write" ELSE "files"
  /\ id_counters' = ClaimIdGenerator
  /\ claims' = <<>>
  /\ extracted_count' = 0
  /\ decode_error_count' = 0
  /\ file_idx' = 1
  /\ now' = now + 1
  /\ error' = NoError
  /\ UNCHANGED <<source_path, text, unit, end_meta, extracted, given_vars,
                 run, output, first_output>>

\* the loop goes on to the next entry of scanned, or is over
NextEntry ==
  IF file_idx = Len(scanned)
  THEN pc' = "write" /\ file_idx' = file_idx
  ELSE pc' = "files" /\ file_idx' = file_idx + 1

\* one turn of the loop over scanned, "except OSError": the file is passed
\* over
SkipUnreadable ==
  /\ pc = "files"
  /\ scanned[file_idx].relative_path \in unreadable
  /\ NextEntry
  /\ UNCHANGED <<source_path, text, unit, end_meta, extracted, given_vars,
                 matches, scanned, scan_summary, id_counters, claims,
                 extracted_count, decode_error_count, run, now, output,
                 first_output, error>>

\* one turn of the loop over scanned
ProcessFile ==
  /\ pc = "files"
  /\ scanned[file_idx].relative_path \notin unreadable
  /\ EntryRaised(scanned[file_idx],
                 repo[scanned[file_idx].relative_path]) = NoError
  /\ \E units \in {ExtractEntry(scanned[file_idx],
                                 repo[scanned[file_idx].relative_path])} :
       \E st \in {BuildClaims(units, 1,
                     _category_from_language(scanned[file_idx].language),
                     [id_counters |-> id_counters, claims |-> claims,
                      extracted_count |-> extracted_count])} :
         /\ source_path' = scanned[file_idx].relative_path
         /\ text' = repo[scanned[file_idx].relative_path]
         /\ extracted' = units
         /\ id_counters' = st.id_counters
         /\ claims' = st.claims
         /\ extracted_count' = st.extracted_count
         /\ IF top # None /\ st.extracted_count >= top[1]
            THEN pc' = "write" /\ file_idx' = file_idx
            ELSE NextEntry
  /\ UNCHANGED <<unit, end_meta, given_vars, matches, scanned, scan_summary,
                 decode_error_count, run, now, output, first_output, error>>

\* one turn of the loop over scanned in which the extractor raises: the
\* exception leaves code_extract_command, nothing is written
FileRaises ==
  /\ pc = "files"
  /\ scanned[file_idx].relative_path \notin unreadable
  /\ EntryRaised(scanned[file_idx],
                 repo[scanned[file_idx].relative_path]) # NoError
  /\ source_path' = scanned[file_idx].relative_path
  /\ text' = repo[scanned[file_idx].relative_path]
  /\ extracted' = <<>>
  /\ error' = EntryRaised(scanned[file_idx],
                          repo[scanned[file_idx].relative_path])
  /\ first_output' = IF run = 1 THEN output.claims ELSE first_output
  /\ run' = run + 1
  /\ pc' = "idle"
  /\ UNCHANGED <<unit, end_meta, given_vars, loop_vars, now, output>>

\* write_jsonl(output_path, claims), the summary and the return
WriteOutput ==
  /\ pc = "write"
  /\ output' = [exists |-> TRUE, claims |-> claims]
  /\ first_output' = IF run = 1 THEN claims ELSE first_output
  /\ run' = run + 1
  /\ pc' = "idle"
  /\ UNCHANGED <<source_path, text, unit, end_meta, extracted, given_vars,
                 loop_vars, now, error>>

RunNext ==
  \/ RejectLanguage \/ ReuseSaved \/ StartRun
  \/ SkipUnreadable \/ ProcessFile \/ FileRaises \/ WriteOutput

SpecRun == RunInit /\ [][RunNext]_vars

(***************************************************************************)
(* The scan alone                                                          *)
(***************************************************************************)
\* a source under the output directory at the root
OutputsPath == <<"o","u","t","p","u","t","s","/","g","e","n",".","p","y">>

\* a source under an output directory below src
NestedOutputsPath == <<"s","r","c","/","o","u","t","p","u","t","s","/","g","e","n",".","c">>

\* a file whose extension is in no entry of LANGUAGE_EXTENSIONS
NotesPath == <<"d","o","c","s","/","n","o","t","e","s",".","t","x","t">>

BigPath == <<"l","i","b","/","b","i","g",".","c">>

NotesText == <<"n","o","t","e","\n">>

ScanPaths == {AlphaPath, OutputsPath, NestedOutputsPath, NotesPath, BigPath}

\* the text at each path of ScanPaths; the link holds that of its target
ScanText(path) ==
  IF Resolve(path) \in {AlphaPath, OutputsPath} THEN AlphaText
  ELSE IF path = NestedOutputsPath THEN BetaText
  ELSE IF path = NotesPath THEN NotesText
  ELSE BetaText \o BetaText

\* the trees of the scan: at most MaxFiles paths, the link only beside its
\* target
ScanTrees ==
  { [q \in D |-> ScanText(q)] :
      D \in { E \in SUBSET (ScanPaths \cup {LinkPath}) :
                /\ Cardinality(E) <= MaxFiles
                /\ \A q \in E : Resolve(q) \in E } }

\* exclude patterns that match the relative form only, and the anchored
\* form only
ExcludeRelative == << <<"s","r","c","/","*">> >>

ExcludeAnchored == << <<"/","l","i","b","/","*">> >>

ExcludeArgs == {DEFAULT_EXCLUDES, <<>>, ExcludeRelative, ExcludeAnchored}

IncludeEverything == << <<"*","*","/","*">> >>

IncludeArgs == {IncludeEverything, default_includes("all")}

\* max_bytes: the size of the file at AlphaPath, and the default
MaxBytesArgs == {Len(AlphaText), DEFAULT_MAX_BYTES}

\* _is_excluded(rel_path, excludes) over the paths of the trees, for each
\* excludes of ExcludeArgs
ScanExcluded ==
  [e \in ExcludeArgs |-> { p \in ScanPaths : _is_excluded(p, e) }]

ScanInit ==
  /\ repo \in ScanTrees
  /\ include \in IncludeArgs
  /\ exclude \in ExcludeArgs
  /\ max_bytes \in MaxBytesArgs
  /\ language \in {"all", "python", "c"}
  /\ pc = "scan"
  /\ NoRead /\ NoLoop /\ NoSpan /\ NoTracker
  /\ unit = "function" /\ end_meta = TRUE
  /\ source_path = <<>> /\ text = <<>> /\ extracted = <<>>
  /\ unreadable = {} /\ top = None /\ save = FALSE /\ run = 0 /\ now = 0
  /\ matches = {} /\ scanned = <<>> /\ scan_summary = NoSummary
  /\ file_idx = 0 /\ id_counters = ClaimIdGenerator /\ claims = <<>>
  /\ extracted_count = 0 /\ decode_error_count = 0
  /\ output = NoOutput /\ first_output = <<>> /\ error = NoError

\* scan_files_with_summary(repo_root, includes, excludes, max_bytes,
\* language_filter)
ScanFiles ==
  /\ pc = "scan"
  /\ matches' = GlobAll(include, DOMAIN repo)
  /\ \E found \in Enumerations(matches') :
       \E result \in {scan_files_with_summary(SortMatches(found), repo,
                                               ScanExcluded[exclude],
                                               max_bytes, language)} :
         /\ scanned' = result.scanned
         /\ scan_summary' = ScanSummary(result)
  /\ pc' = "scanned"
  /\ UNCHANGED <<source_path, text, unit, end_meta, extracted, given_vars,
                 file_idx, id_counters, claims, extracted_count,
                 decode_error_count, run, now, output, first_output, error>>

ScanNext == ScanFiles

SpecScan == ScanInit /\ [][ScanNext]_vars

(***************************************************************************)
(* The loader                                                              *)
(***************************************************************************)
\* the length of data at most
MaxData == 4

\* the bytes of data: "A", the two bytes of U+00E9 in UTF-8 and the three
\* of the byte order mark
Bytes == {65, 195, 169, 239, 187, 191}

ByteStrings == UNION { [1..n -> Bytes] : n \in 0..MaxData }

\* a continuation byte of UTF-8
IsContinuation(b) == 128 <= b /\ b <= 191

\* the number of bytes of the UTF-8 sequence that byte b leads, 0 when b
\* leads none (bytes below 240)
SequenceLength(b) ==
  IF b < 128 THEN 1
  ELSE IF 194 <= b /\ b <= 223 THEN 2
  ELSE IF 224 <= b /\ b <= 239 THEN 3
  ELSE 0

\* the second byte of a three-byte sequence is in the range of its lead:
\* no overlong form after 224, no surrogate after 237
SecondInRange(lead, b) ==
  /\ IsContinuation(b)
  /\ lead = 224 => b >= 160
  /\ lead = 237 => b <= 159

\* bytes.decode("utf-8") from byte i on: the code points, or
\* UnicodeDecodeError
RECURSIVE Utf8From(_, _, _)
Utf8From(bytes, i, out) ==
  IF i > Len(bytes) THEN [ok |-> TRUE, text |-> out]
  ELSE IF SequenceLength(bytes[i]) = 1
    THEN Utf8From(bytes, i + 1, Append(out, bytes[i]))
  ELSE IF /\ SequenceLength(bytes[i]) = 2 /\ i + 1 <= Len(bytes)
          /\ IsContinuation(bytes[i + 1])
    THEN Utf8From(bytes, i + 2,
                  Append(out, (bytes[i] % 32) * 64 + (bytes[i + 1] % 64)))
  ELSE IF /\ SequenceLength(bytes[i]) = 3 /\ i + 2 <= Len(bytes)
          /\ SecondInRange(bytes[i], bytes[i + 1])
          /\ IsContinuation(bytes[i + 2])
    THEN Utf8From(bytes, i + 3,
                  Append(out, (bytes[i] % 16) * 4096
                              + (bytes[i + 1] % 64) * 64
                              + (bytes[i + 2] % 64)))
  ELSE [ok |-> FALSE, exc |-> "UnicodeDecodeError"]

\* codecs.BOM_UTF8
BOM_UTF8 == <<239, 187, 191>>

\* the text encodings of the model that the interpreter knows
KnownEncodings == {"utf-8", "ascii", "utf-8-sig", "latin-1", "undefined"}

\* bytes.decode(codec): the code points, or the exception raised; the
\* empty bytes decode to the empty text before the codec is looked up
decode(bytes, codec) ==
  IF bytes = <<>> THEN [ok |-> TRUE, text |-> <<>>]
  ELSE IF codec \notin KnownEncodings
    THEN [ok |-> FALSE, exc |-> "LookupError"]
  ELSE IF codec = "undefined" THEN [ok |-> FALSE, exc |-> "UnicodeError"]
  ELSE IF codec = "latin-1" THEN [ok |-> TRUE, text |-> bytes]
  ELSE IF codec = "ascii"
    THEN (IF \A i \in 1..Len(bytes) : bytes[i] < 128
          THEN [ok |-> TRUE, text |-> bytes]
          ELSE [ok |-> FALSE, exc |-> "UnicodeDecodeError"])
  ELSE IF codec = "utf-8-sig" /\ StartsWith(bytes, BOM_UTF8)
    THEN Utf8From(bytes, Len(BOM_UTF8) + 1, <<>>)
  ELSE Utf8From(bytes, 1, <<>>)

\* hashlib.sha1(data).hexdigest(): a value that the bytes determine
hexdigest(bytes) == <<"sha1", bytes>>

\* the candidates of read_text_with_fallback, in order
Candidates(preferred) == <<preferred, "utf-8-sig", "latin-1">>

\* the loop over the candidates from candidate k on: the first text that
\* decodes, the first exception that is not a UnicodeDecodeError, or the
\* decode with errors="replace" after the loop
RECURSIVE TryFrom(_, _, _)
TryFrom(bytes, candidates, k) ==
  IF k > Len(candidates) THEN [ok |-> TRUE, text |-> bytes]
  ELSE IF decode(bytes, candidates[k]).ok THEN decode(bytes, candidates[k])
  ELSE IF decode(bytes, candidates[k]).exc = "UnicodeDecodeError"
    THEN TryFrom(bytes, candidates, k + 1)
  ELSE decode(bytes, candidates[k])

read_text_with_fallback(bytes, preferred) ==
  TryFrom(bytes, Candidates(preferred), 1)

\* the values of --encoding: the default, three other codecs of the
\* interpreter, and a name that is no codec
EncodingArgs == {"utf-8", "ascii", "latin-1", "undefined", "utf-9"}

ReadInit ==
  /\ data \in ByteStrings
  /\ encoding \in EncodingArgs
  /\ sha1 = None
  /\ NoLoop /\ NoSpan /\ NoTracker
  /\ pc = "load"
  /\ repo = <<>> /\ unreadable = {} /\ top = None /\ save = FALSE
  /\ language = "all" /\ include = None /\ exclude = None
  /\ max_bytes = DEFAULT_MAX_BYTES /\ run = 0 /\ now = 0
  /\ unit = "function" /\ end_meta = TRUE
  /\ source_path = <<>> /\ text = <<>> /\ extracted = <<>>
  /\ matches = {} /\ scanned = <<>> /\ scan_summary = NoSummary
  /\ file_idx = 0 /\ id_counters = ClaimIdGenerator /\ claims = <<>>
  /\ extracted_count = 0 /\ decode_error_count = 0
  /\ output = NoOutput /\ first_output = <<>> /\ error = NoError

\* read_text_with_fallback returns
ReadReturns ==
  /\ pc = "load"
  /\ read_text_with_fallback(data, encoding).ok
  /\ text' = read_text_with_fallback(data, encoding).text
  /\ sha1' = hexdigest(data)
  /\ pc' = "loaded"
  /\ UNCHANGED <<source_path, unit, end_meta, extracted, command_vars, data,
                 encoding, block_vars, span_vars, tracker_vars, loop_vars, run, now,
                 output, first_output, error>>

\* read_text_with_fallback raises
ReadRaises ==
  /\ pc = "load"
  /\ ~read_text_with_fallback(data, encoding).ok
  /\ error' = read_text_with_fallback(data, encoding).exc
  /\ pc' = "loaded"
  /\ UNCHANGED <<source_path, text, unit, end_meta, extracted, given_vars,
                 loop_vars, run, now, output, first_output>>

ReadNext == ReadReturns \/ ReadRaises

SpecRead == ReadInit /\ [][ReadNext]_vars

(***************************************************************************)
(* The loop of _find_function_blocks, turn by turn                         *)
(***************************************************************************)
\* bound: lines in a text given to the loop
MaxLoopLines == 3

\* lines of the texts given to the loop
LoopLines ==
  { <<"i","n","t"," ","f","(",")"," ","{">>,
    <<"i","n","t"," ","g","(",")",";">>,
    <<"}">>,
    <<"i","f"," ","(","g","(","x",")",")"," ","{">>,
    <<"/","/"," ","i","n","t"," ","h","(",")"," ","{">>,
    <<"#","d","e","f","i","n","e"," ","M","(","x",")"," ","{">>,
    <<"i","n","t"," ","f","(",")"," ","{"," ","r","e","t","u","r","n"," ","g","(",")",";"," ","}">>,
    <<"i","n","t"," ","f","(",")"," ","/","*"," ","g","(",")"," ","*","/">>,
    <<"{">> }

LoopTexts ==
  { TextOf(ls) : ls \in UNION { [1..n -> LoopLines] : n \in 0..MaxLoopLines } }

\* bound: lines of a parameter list between "int f(" and ") {"
MaxParameterLines == 25

\* lines of a parameter list: a parameter, a comment that holds a brace, an
\* empty line
ParameterLines ==
  { <<"a",",">>,
    <<"/","/"," ","{">>,
    <<>> }

\* "int f(", k times the line, ") {", "}"
ParameterListText(line, k) ==
  TextOf(<<<<"i","n","t"," ","f","(">>>> \o [i \in 1..k |-> line]
         \o <<<<")"," ","{">>, <<"}">>>>)

\* definitions whose opening brace is on line 2 to MaxParameterLines + 2
ParameterListTexts ==
  { ParameterListText(line, k) :
      line \in ParameterLines, k \in 0..MaxParameterLines }

\* before extract_c_cpp_units is given a text
LoopInit ==
  /\ source_path \in CPaths /\ text = <<>>
  /\ unit = "function" /\ end_meta = TRUE
  /\ pc = "call"
  /\ extracted = <<>>
  /\ NoLoop /\ NoSpan /\ NoTracker
  /\ NoRead
  /\ repo = <<>> /\ unreadable = {} /\ top = None /\ save = FALSE
  /\ language = "all" /\ include = None /\ exclude = None
  /\ max_bytes = DEFAULT_MAX_BYTES /\ run = 0 /\ now = 0
  /\ matches = {} /\ scanned = <<>> /\ scan_summary = NoSummary
  /\ file_idx = 0 /\ id_counters = ClaimIdGenerator /\ claims = <<>>
  /\ extracted_count = 0 /\ decode_error_count = 0
  /\ output = NoOutput /\ first_output = <<>> /\ error = NoError

\* extract_c_cpp_units is given a C-family text and calls
\* _find_function_blocks on its lines: "idx = 0"
EnterLoop ==
  /\ pc = "call"
  /\ text' \in LoopTexts \cup ParameterListTexts
  /\ pc' = "loop"
  /\ loop_idx' = 1 /\ yielded' = <<>>
  /\ UNCHANGED <<source_path, unit, end_meta, extracted, command_vars,
                 read_vars, span_vars, tracker_vars, loop_vars, run, now, output,
                 first_output, error>>

\* the turns of the loop over the lines, one for each line
TurnsOf(lines) == [i \in 1..Len(lines) |-> FunctionStep(lines, i)]

\* the turn of the loop at each line of each text, tabulated
Turns ==
  [t \in LoopTexts \cup ParameterListTexts |-> TurnsOf(splitlines(t))]

\* a turn of the loop of the given kind
Turn(kind) ==
  /\ pc = "loop" /\ loop_idx \in DOMAIN Turns[text]
  /\ Turns[text][loop_idx].kind = kind
  /\ loop_idx' = Turns[text][loop_idx].next
  /\ yielded' = yielded \o Yielded(Turns[text][loop_idx])
  /\ UNCHANGED <<file_vars, command_vars, read_vars, span_vars, tracker_vars, loop_vars,
                 run, now, output, first_output, error>>

\* the line is a "#define" or holds no "("
SkipLine == Turn("skipped")

\* the candidate at the line gives no unit
AbandonCandidate == Turn("abandoned")

\* the candidate at the line gives a unit
EmitUnit == Turn("emitted")

\* "while idx < len(lines)" is false: the generator is exhausted
LoopEnds ==
  /\ pc = "loop" /\ loop_idx \notin DOMAIN Turns[text]
  /\ pc' = "done"
  /\ UNCHANGED <<source_path, text, unit, end_meta, extracted, given_vars,
                 loop_vars, run, now, output, first_output, error>>

LoopNext ==
  EnterLoop \/ SkipLine \/ AbandonCandidate \/ EmitUnit \/ LoopEnds

SpecLoop == LoopInit /\ [][LoopNext]_vars

\* the loop is never suspended for good: its caller consumes the generator
\* to the end (list(_find_function_blocks(lines)))
SpecLoopFair == SpecLoop /\ WF_vars(LoopNext)

(***************************************************************************)
(* _node_line_span without end-line metadata                               *)
(***************************************************************************)
\* bound: statements in a module given to the fallback
MaxStatements == 3

\* statements of a module: an assignment, an empty line, functions and
\* classes indented with spaces and with tabs
Statements ==
  { <<<<"x"," ","="," ","1">>>>,
    <<<<>>>>,
    <<<<"d","e","f"," ","f","(",")",":">>, <<" "," "," "," ","r","e","t","u","r","n"," ","1">>>>,
    <<<<"d","e","f"," ","f","(",")",":">>, <<"\t","r","e","t","u","r","n"," ","1">>>>,
    <<<<"d","e","f"," ","f","(",")",":">>, <<>>, <<" "," "," "," ","r","e","t","u","r","n"," ","1">>>>,
    <<<<"c","l","a","s","s"," ","C",":">>, <<" "," "," "," ","d","e","f"," ","m","(","s","e","l","f",")",":">>, <<" "," "," "," "," "," "," "," ","r","e","t","u","r","n"," ","1">>>>,
    <<<<"c","l","a","s","s"," ","C",":">>, <<"\t","d","e","f"," ","m","(","s","e","l","f",")",":">>, <<"\t","\t","r","e","t","u","r","n"," ","1">>>> }

RECURSIVE Flatten(_)
Flatten(statements) ==
  IF statements = <<>> THEN <<>>
  ELSE Head(statements) \o Flatten(Tail(statements))

\* the modules of up to MaxStatements statements
FallbackTexts ==
  { TextOf(Flatten(ss)) :
      ss \in UNION { [1..n -> Statements] : n \in 0..MaxStatements } }

\* the line holds the header of a node of the kind: of a function, of a
\* class
IsDefinitionLine(line, kind) ==
  IF kind = "class" THEN StartsWith(lstrip(line), KwClass)
  ELSE StartsWith(lstrip(line), KwDef)

\* a parsed module whose nodes carry no end_lineno
SpanInit ==
  /\ source_path = <<"a",".","p","y">> /\ text \in FallbackTexts
  /\ unit \in {"function", "class"} /\ end_meta = FALSE
  /\ pc = "parsed"
  /\ extracted = <<>>
  /\ NoLoop /\ NoSpan /\ NoTracker
  /\ NoRead
  /\ repo = <<>> /\ unreadable = {} /\ top = None /\ save = FALSE
  /\ language = "all" /\ include = None /\ exclude = None
  /\ max_bytes = DEFAULT_MAX_BYTES /\ run = 0 /\ now = 0
  /\ matches = {} /\ scanned = <<>> /\ scan_summary = NoSummary
  /\ file_idx = 0 /\ id_counters = ClaimIdGenerator /\ claims = <<>>
  /\ extracted_count = 0 /\ decode_error_count = 0
  /\ output = NoOutput /\ first_output = <<>> /\ error = NoError

\* _node_line_span(node, lines) for a function or class node of the module
NodeLineSpan ==
  /\ pc = "parsed"
  /\ \E n \in 1..Len(splitlines(text)) :
       /\ IsDefinitionLine(splitlines(text)[n], unit)
       /\ fallback_node' = n
       /\ fallback_span' =
            _node_line_span([lineno |-> n, end_lineno |-> NoLine],
                            splitlines(text))
  /\ pc' = "spanned"
  /\ UNCHANGED <<source_path, text, unit, end_meta, extracted, command_vars,
                 read_vars, block_vars, tracker_vars, loop_vars, run, now,
                 output, first_output, error>>

SpanNext == NodeLineSpan

SpecSpan == SpanInit /\ [][SpanNext]_vars

(***************************************************************************)
(* The scanning loops, character by character                              *)
(***************************************************************************)
\* bound: braces that _find_block_end has open
MaxBraces == 2

\* the characters that the loops tell apart, and one that they do not
TrackerChars == {"/", "*", "\"", "'", "\\", "{", "}", ";", "a"}

ScanLoops == {"_collect_signature", "_find_opening_brace", "_find_block_end"}

\* what a loop can have before it at the start of a line: an empty line,
\* the last character of a line, a character and the one after it
LineStarts ==
  {<<>>} \cup { <<c>> : c \in TrackerChars }
         \cup { <<c, d>> : c \in TrackerChars, d \in TrackerChars }

\* what the loop has before it after the character at which it is
NextColumn(window) ==
  IF Len(window) = 2
  THEN { <<window[2]>> } \cup { <<window[2], c>> : c \in TrackerChars }
  ELSE { <<>> }

\* "state = ScanState()" and the first "state.reset_line()" of a loop;
\* _find_block_end starts at the opening brace
TrackerInit ==
  /\ tracker_loop \in ScanLoops
  /\ tracker = reset_line(ScanState)
  /\ ahead \in LineStarts
  /\ tracker_loop = "_find_block_end" => ahead # <<>> /\ ahead[1] = "{"
  /\ lines_read = 1 /\ open_braces = 0
  /\ pc = "scan"
  /\ source_path = <<"a",".","c">> /\ text = <<>>
  /\ unit = "function" /\ end_meta = TRUE
  /\ extracted = <<>>
  /\ NoLoop /\ NoSpan
  /\ NoRead
  /\ repo = <<>> /\ unreadable = {} /\ top = None /\ save = FALSE
  /\ language = "all" /\ include = None /\ exclude = None
  /\ max_bytes = DEFAULT_MAX_BYTES /\ run = 0 /\ now = 0
  /\ matches = {} /\ scanned = <<>> /\ scan_summary = NoSummary
  /\ file_idx = 0 /\ id_counters = ClaimIdGenerator /\ claims = <<>>
  /\ extracted_count = 0 /\ decode_error_count = 0
  /\ output = NoOutput /\ first_output = <<>> /\ error = NoError

\* what a step of a scanning loop leaves alone
TrackerKeeps ==
  UNCHANGED <<source_path, text, unit, end_meta, extracted, command_vars,
              read_vars, block_vars, span_vars, tracker_loop, loop_vars, run,
              now, output, first_output, error>>

\* "if state.in_line_comment: break": the rest of the line is passed over
LineCommentBreaks ==
  /\ pc = "scan" /\ ahead # <<>>
  /\ TrackerStep(tracker, ahead, 1).act = "break"
  /\ tracker' = TrackerStep(tracker, ahead, 1).state
  /\ ahead' = <<>>
  /\ UNCHANGED <<pc, lines_read, open_braces>>
  /\ TrackerKeeps

\* the character is consumed by the tracker: every "continue" of the loop
TrackerConsumes ==
  /\ pc = "scan" /\ ahead # <<>>
  /\ TrackerStep(tracker, ahead, 1).act = "continue"
  /\ tracker' = TrackerStep(tracker, ahead, 1).state
  /\ ahead' \in NextColumn(ahead)
  /\ UNCHANGED <<pc, lines_read, open_braces>>
  /\ TrackerKeeps

\* the character is code and does not end the loop; in _find_block_end a
\* brace is counted
CodePasses ==
  /\ pc = "scan" /\ ahead # <<>>
  /\ TrackerStep(tracker, ahead, 1).act = "code"
  /\ IF tracker_loop = "_find_block_end"
     THEN /\ ahead[1] = "{" => open_braces < MaxBraces
          /\ ahead[1] = "}" => open_braces - 1 # 0
          /\ open_braces' = IF ahead[1] = "{" THEN open_braces + 1
                            ELSE IF ahead[1] = "}" THEN open_braces - 1
                            ELSE open_braces
     ELSE /\ ahead[1] \notin {";", "{"}
          /\ open_braces' = open_braces
  /\ tracker' = TrackerStep(tracker, ahead, 1).state
  /\ ahead' \in NextColumn(ahead)
  /\ UNCHANGED <<pc, lines_read>>
  /\ TrackerKeeps

\* the character is code and the loop returns: ";" or "{" in
\* _collect_signature and _find_opening_brace, the "}" that closes the block
\* in _find_block_end
CodeReturns ==
  /\ pc = "scan" /\ ahead # <<>>
  /\ TrackerStep(tracker, ahead, 1).act = "code"
  /\ IF tracker_loop = "_find_block_end"
     THEN ahead[1] = "}" /\ open_braces - 1 = 0
     ELSE ahead[1] \in {";", "{"}
  /\ tracker' = TrackerStep(tracker, ahead, 1).state
  /\ pc' = "returned"
  /\ UNCHANGED <<ahead, lines_read, open_braces>>
  /\ TrackerKeeps

\* the loop over the lines goes on: "state.reset_line()"; _collect_signature
\* reads max_lines lines at most
NextLine ==
  /\ pc = "scan" /\ ahead = <<>>
  /\ tracker_loop = "_collect_signature" => lines_read < max_lines
  /\ tracker' = reset_line(tracker)
  /\ ahead' \in LineStarts
  /\ lines_read' = IF tracker_loop = "_collect_signature"
                   THEN lines_read + 1 ELSE lines_read
  /\ UNCHANGED <<pc, open_braces>>
  /\ TrackerKeeps

\* the loop over the lines is exhausted: the loop returns
LinesExhausted ==
  /\ pc = "scan" /\ ahead = <<>>
  /\ pc' = "returned"
  /\ UNCHANGED <<tracker, ahead, lines_read, open_braces>>
  /\ TrackerKeeps

TrackerNext ==
  \/ LineCommentBreaks \/ TrackerConsumes \/ CodePasses \/ CodeReturns
  \/ NextLine \/ LinesExhausted

SpecTracker == TrackerInit /\ [][TrackerNext]_vars

(***************************************************************************)
(* Reference notions used to state the properties                          *)
(***************************************************************************)
lines_of_text == splitlines(text)

IsCFamily == detect_language(source_path) \in {"c", "cpp"}

IsPython == detect_language(source_path) = "python"

SpanOf(u) == <<u.line_start, u.line_end>>

\* The lexical structure of C text: what each character is part of, "code",
\* "comment" or "literal" (delimiters belong to what they delimit).  The two
\* characters of a comment delimiter are read together.
RECURSIVE LexChars(_, _, _, _)
LexChars(line, col, mode, out) ==
  LET c == line[col]
      two == col + 1 <= Len(line)
      Fill(kind, n) == [i \in 1..n |-> kind]
  IN IF col > Len(line) THEN [mode |-> mode, out |-> out]
     ELSE IF mode = "block"
       THEN IF c = "*" /\ peek(line, col) = "/"
            THEN LexChars(line, col + 2, "code", out \o Fill("comment", 2))
            ELSE LexChars(line, col + 1, "block", Append(out, "comment"))
     ELSE IF mode \in {"str", "chr"}
       THEN IF c = "\\"
            THEN LexChars(line, col + 2, mode,
                          out \o Fill("literal", IF two THEN 2 ELSE 1))
            ELSE IF (mode = "str" /\ c = "\"") \/ (mode = "chr" /\ c = "'")
            THEN LexChars(line, col + 1, "code", Append(out, "literal"))
            ELSE LexChars(line, col + 1, mode, Append(out, "literal"))
     ELSE IF c = "/" /\ peek(line, col) = "*"
       THEN LexChars(line, col + 2, "block", out \o Fill("comment", 2))
     ELSE IF c = "/" /\ peek(line, col) = "/"
       THEN [mode |-> "code",
             out |-> out \o Fill("comment", Len(line) - col + 1)]
     ELSE IF c = "\""
       THEN LexChars(line, col + 1, "str", Append(out, "literal"))
     ELSE IF c = "'"
       THEN LexChars(line, col + 1, "chr", Append(out, "literal"))
     ELSE LexChars(line, col + 1, "code", Append(out, "code"))

\* the kinds of all characters when reading starts, in code, at line l0
\* column c0; what lies before is "skip"
RECURSIVE LexLines(_, _, _, _, _)
LexLines(lines, l0, c0, l, mode) ==
  IF l > Len(lines) THEN <<>>
  ELSE IF l < l0
    THEN << [i \in 1..Len(lines[l]) |-> "skip"] >>
         \o LexLines(lines, l0, c0, l + 1, mode)
  ELSE LET from == IF l = l0 THEN c0 ELSE 1
           r == LexChars(lines[l], from, mode, [i \in 1..(from - 1) |-> "skip"])
       IN <<r.out>> \o LexLines(lines, l0, c0, l + 1, r.mode)

LexicalKinds(lines, l0, c0) == LexLines(lines, l0, c0, 1, "code")

\* the same table as the tracker produces it: "code" where a character
\* reaches the tests of the scanning loop that starts at line l0 column c0
RECURSIVE TrackChars(_, _, _, _)
TrackChars(line, col, state, out) ==
  LET r == TrackerStep(state, line, col)
  IN IF col > Len(line) THEN [state |-> state, out |-> out]
     ELSE IF r.act = "break"
       THEN [state |-> r.state,
             out |-> out \o [i \in 1..(Len(line) - col + 1) |-> "other"]]
     ELSE TrackChars(line, col + 1, r.state,
                     Append(out, IF r.act = "code" THEN "code" ELSE "other"))

RECURSIVE TrackLines(_, _, _, _, _)
TrackLines(lines, l0, c0, l, state) ==
  IF l > Len(lines) THEN <<>>
  ELSE IF l < l0
    THEN << [i \in 1..Len(lines[l]) |-> "skip"] >>
         \o TrackLines(lines, l0, c0, l + 1, state)
  ELSE LET from == IF l = l0 THEN c0 ELSE 1
           r == TrackChars(lines[l], from, reset_line(state),
                           [i \in 1..(from - 1) |-> "skip"])
       IN <<r.out>> \o TrackLines(lines, l0, c0, l + 1, r.state)

TrackerKinds(lines, l0, c0) == TrackLines(lines, l0, c0, 1, ScanState)

\* positions <<line, column>> of lines l0..l1 in reading order
Before(p, q) == p[1] < q[1] \/ (p[1] = q[1] /\ p[2] < q[2])

Positions(lines, l0, l1) ==
  UNION { { <<l, c>> : c \in 1..Len(lines[l]) } : l \in l0..l1 }

\* the positions at which one of chars stands as code, by the table kinds
CodeCharsAt(lines, kinds, chars, l0, l1) ==
  { p \in Positions(lines, l0, l1) :
      lines[p[1]][p[2]] \in chars /\ kinds[p[1]][p[2]] = "code" }

First(ps) == CHOOSE p \in ps : \A q \in ps : q = p \/ Before(p, q)

\* The line of the brace that balances the opening brace at open, by the
\* table kinds: the first closing brace before which, from open on, there are
\* as many opening as closing braces.  NoLine when there is none.
BalanceLine(lines, kinds, open) ==
  LET braces == { p \in CodeCharsAt(lines, kinds, {"{", "}"}, open[1], Len(lines)) :
                    p = open \/ Before(open, p) }
      Depth(p) ==
        Cardinality({ q \in braces : lines[q[1]][q[2]] = "{"
                                     /\ (q = p \/ Before(q, p)) })
        - Cardinality({ q \in braces : lines[q[1]][q[2]] = "}"
                                       /\ (q = p \/ Before(q, p)) })
      closing == { p \in braces : lines[p[1]][p[2]] = "}" /\ Depth(p) = 0 }
  IN IF closing = {} THEN NoLine ELSE First(closing)[1]

\* the candidate that starts at line s is a declaration: read from the start
\* of the line, within the lines a signature may take, the first of ';' and
\* '{' that stands as code is a ';'
IsDeclaration(lines, s) ==
  LET ends == CodeCharsAt(lines, LexicalKinds(lines, s, 1), {";", "{"}, s,
                          Min(Len(lines), s + max_lines - 1))
  IN ends # {} /\ lines[First(ends)[1]][First(ends)[2]] = ";"

\* the line opens a compound statement: a control-flow keyword, then '('
StartsWithControl(line) ==
  \E kw \in CONTROL_KEYWORDS :
    LET r == lstrip(line)
        q == SkipSpaces(r, Len(kw) + 1)
    IN StartsWith(r, kw) /\ q <= Len(r) /\ r[q] = "("

\* the text of line l up to column upto, without the characters of comments
RECURSIVE WithoutComments(_, _, _, _)
WithoutComments(line, kinds, i, upto) ==
  IF i > upto THEN <<>>
  ELSE IF kinds[i] = "comment" THEN WithoutComments(line, kinds, i + 1, upto)
  ELSE <<line[i]>> \o WithoutComments(line, kinds, i + 1, upto)

\* the signature of the candidate of line s whose body opens at open: the
\* text from the start of line s up to the opening brace, comments left out
SignatureUpToBrace(lines, s, open) ==
  LET kinds == LexicalKinds(lines, s, 1)
  IN JoinNl([k \in 1..(open[1] - s + 1) |->
               LET l == s + k - 1
               IN WithoutComments(lines[l], kinds[l], 1,
                    IF l = open[1] THEN open[2] - 1 ELSE Len(lines[l]))])

Units_(kind) == { i \in 1..Len(extracted) : extracted[i].unit = kind }

(***************************************************************************)
(* Properties                                                              *)
(***************************************************************************)

\* C1: every emitted unit, of either extractor and of any unit kind, has
\* 1 <= line_start <= line_end <= total_lines, total_lines being the number
\* of lines of the text.
C1_SpanWithinFile ==
  pc = "done" =>
    \A i \in 1..Len(extracted) :
      /\ 1 <= extracted[i].line_start
      /\ extracted[i].line_start <= extracted[i].line_end
      /\ extracted[i].line_end <= Len(lines_of_text)

WholeFileUnit ==
  /\ Len(extracted) = 1
  /\ extracted[1].unit = "file"
  /\ SpanOf(extracted[1]) = <<1, Len(lines_of_text)>>

C4_ControlKeywordYieldsNoUnit ==
  (pc = "done" /\ IsCFamily /\ unit = "function") =>
    \A i \in Units_("function") :
      ~StartsWithControl(lines_of_text[extracted[i].line_start])

\* C5 as stated: for unit kind function on a header whose function locator
\* finds no body the result is exactly one unit of kind file spanning
\* [1, total_lines]; otherwise the result holds no unit of kind file.
C5_HeaderFallbackForEveryText ==
  (pc = "done" /\ IsCFamily /\ unit = "function") =>
    IF header_of(source_path) /\ _find_function_blocks(lines_of_text) = <<>>
    THEN WholeFileUnit
    ELSE Units_("file") = {}

\* C5: the same for every text of at least one line; for the empty text the
\* result is empty, header or not.
C5_HeaderFallback ==
  (pc = "done" /\ IsCFamily /\ unit = "function") =>
    IF Len(lines_of_text) = 0 THEN extracted = <<>>
    ELSE IF header_of(source_path)
            /\ _find_function_blocks(lines_of_text) = <<>>
    THEN WholeFileUnit
    ELSE Units_("file") = {}

C5_Witness ==
  /\ pc = "done" /\ unit = "function" /\ header_of(source_path)
  /\ Len(lines_of_text) = 3
  /\ \E s \in 1..3 : IsDeclaration(lines_of_text, s)
  /\ WholeFileUnit

\* C7: no class or function unit is produced from text inside a comment or
\* a string literal: the class/struct keyword of a class unit, and the first
\* '(' and the opening brace of a function unit, stand as code in the file.
C7_NoUnitFromCommentOrLiteral ==
  (pc = "done" /\ IsCFamily /\ unit \in {"class", "function"}) =>
    LET lines == lines_of_text
        kinds == LexicalKinds(lines, 1, 1)
    IN /\ \A i \in Units_("class") :
            LET s == extracted[i].line_start
            IN kinds[s][ClassSearch(lines[s]).start] = "code"
       /\ \A i \in Units_("function") :
            LET s == extracted[i].line_start
                open == _collect_signature(lines, s).brace_location
            IN /\ kinds[s][find(lines[s], <<"(">>)] = "code"
               /\ kinds[open[1]][open[2]] = "code"

\* C8: the symbol of a function unit is the last identifier standing before
\* a '(' in the signature, the text from the start of the candidate line up
\* to the opening brace of the body; what follows that brace on its line, and
\* what stands in comments, has no part in it.
C8_SymbolFromSignature ==
  (pc = "done" /\ IsCFamily /\ unit = "function") =>
    \A i \in Units_("function") :
      LET s == extracted[i].line_start
          open == _collect_signature(lines_of_text, s).brace_location
      IN extracted[i].symbol =
           _extract_function_name(SignatureUpToBrace(lines_of_text, s, open))

\* what a claim on disk tells of its unit: identifier, file, kind, symbol, span
UnitOf(claim) ==
  [claim_id |-> claim.claim_id, source_path |-> claim.source_path,
   unit |-> claim.unit, symbol |-> claim.symbol,
   line_start |-> claim.line_start, line_end |-> claim.line_end]

UnitsOf(cs) == [i \in 1..Len(cs) |-> UnitOf(cs[i])]

\* C6: two runs over the same files with the same arguments give the same
\* sequence of units, with the same symbols and spans in the same order, and
\* the same claim identifiers; nothing of the first run reaches the second.
C6_Deterministic ==
  run = 3 => UnitsOf(output.claims) = UnitsOf(first_output)

C6_Witness ==
  /\ run = 3 /\ ~save /\ Len(scanned) = 3
  /\ Len(output.claims) >= 3
  /\ \E i \in 1..Len(output.claims) : output.claims[i].claim_id[2] = 2
  /\ output.claims # first_output

OpeningBraces(lines, s, c) ==
  CodeCharsAt(lines, TrackerKinds(lines, s, c), {"{"}, s, Len(lines))

ClosesAt(lines, open, e) ==
  e = BalanceLine(lines, TrackerKinds(lines, open[1], open[2]), open)

C10_OnlyCodeBracesCounted ==
  (pc = "done" /\ IsCFamily /\ unit = "function") =>
    LET lines == lines_of_text
    IN \A p \in Positions(lines, 1, Len(lines)) :
         lines[p[1]][p[2]] = "{" =>
           _find_block_end(lines, p[1], p[2]) =
             BalanceLine(lines, LexicalKinds(lines, p[1], p[2]), p)

\* the class candidate of line s is a forward declaration: read from the
\* class/struct keyword on, the first of ';' and '{' that stands as code is
\* a ';'
ForwardDeclared(lines, s) ==
  LET m == ClassSearch(lines[s])
      ends == CodeCharsAt(lines, LexicalKinds(lines, s, m.start), {";", "{"},
                          s, Len(lines))
  IN m.found /\ ends # {} /\ lines[First(ends)[1]][First(ends)[2]] = ";"

\* C11: a class candidate whose class/struct keyword is followed by a ';'
\* outside strings and comments before any '{' is abandoned: no class unit
\* starts at the line of a forward declaration.
C11_ForwardDeclarationYieldsNoUnit ==
  (pc = "done" /\ IsCFamily /\ unit = "class") =>
    \A i \in Units_("class") :
      ~ForwardDeclared(lines_of_text, extracted[i].line_start)

IsFunctionUnit(u) == u.unit = "function"

IsClassUnit(u) == u.unit = "class"

\* the emitted units of one kind, as <<symbol, line_start, line_end>>
BlocksOf(us) ==
  [i \in 1..Len(us) |-> <<us[i].symbol, us[i].line_start, us[i].line_end>>]

\* blocks found in the text without its first n lines, numbered in the text
Shift(found, n) ==
  [i \in 1..Len(found) |->
     <<found[i][1], found[i][2] + n, found[i][3] + n>>]

\* the blocks that start after line n
RECURSIVE After(_, _)
After(found, n) ==
  IF found = <<>> THEN <<>>
  ELSE IF found[1][2] > n THEN <<found[1]>> \o After(Tail(found), n)
  ELSE After(Tail(found), n)

\* the first line of the text at which a function candidate starts: it
\* holds a '(' and is no macro definition.  NoLine when there is none.
FirstCandidate(lines) ==
  LET starts == { s \in 1..Len(lines) :
                    /\ Contains(lines[s], "(")
                    /\ ~StartsWith(lstrip(lines[s]),
                                   <<"#","d","e","f","i","n","e">>) }
  IN IF starts = {} THEN NoLine
     ELSE CHOOSE s \in starts : \A t \in starts : s <= t

\* the ';' and '{' that stand as code for the scan that starts at line s
\* column c and reads up to line last
EndsFrom(lines, s, c, last) ==
  CodeCharsAt(lines, TrackerKinds(lines, s, c), {";", "{"}, s, last)

\* the scan from line s column c up to line last finds no body that
\* closes: it meets neither ';' nor '{' up to the end of the file, or the
\* braces from the first '{', met before any ';', never balance
NeverCloses(lines, s, c, last) ==
  LET ends == EndsFrom(lines, s, c, last)
      open == First(ends)
  IN IF ends = {} THEN last = Len(lines)
     ELSE /\ lines[open[1]][open[2]] = "{"
          /\ BalanceLine(lines, TrackerKinds(lines, open[1], open[2]), open)
               = NoLine

\* the last line the scan from line s has read when it stops
LastRead(lines, s, c, last) ==
  LET ends == EndsFrom(lines, s, c, last)
  IN IF ends = {} THEN last ELSE First(ends)[1]

SignatureLast(lines, s) == Min(Len(lines), s + max_lines - 1)

\* where in its line the search of a class candidate starts
ClassStart(line) == find(line, ClassSearch(line).group0)

IsClassCandidate(line) ==
  ~StartsWith(lstrip(line), <<"#">>) /\ ClassSearch(line).found

ParentsOf(lines) ==
  PyBlocks(lines, 1,
           [ok |-> TRUE, exc |-> "SyntaxError", indents |-> <<0>>,
            blocks |-> <<0>>, expect |-> FALSE, pending |-> 0,
            parent |-> <<>>]).parent

\* the lines of the text as ast.parse counts them
source_lines == SourceLines(text)

Parsed == ast_parse(text, source_lines, end_meta).ok

\* line i holds a function definition, sync or async
IsDefLine(lines, i) ==
  PyLineInfo(lines[i]).kind \in {"FunctionDef", "AsyncFunctionDef"}

\* line i stands directly in the module body
InModuleBody(lines, i) == ParentsOf(lines)[i] = 0

\* line i stands directly in the body of a class of the module body
InTopClassBody(lines, i) ==
  LET par == ParentsOf(lines)[i]
  IN /\ par > 0
     /\ PyLineInfo(lines[par]).kind = "ClassDef"
     /\ InModuleBody(lines, par)

\* C13: for unit kind function, a function definition gives a unit if and
\* only if it stands directly in the module body or directly in the body of
\* a class that itself stands directly in the module body.
C13_TopLevelFunctionsAndMethodsOnly ==
  (pc = "done" /\ IsPython /\ unit = "function" /\ Parsed) =>
    LET lines == source_lines
    IN { extracted[i].line_start : i \in 1..Len(extracted) } =
         { i \in 1..Len(lines) :
             /\ ~IsBlank(lines[i])
             /\ IsDefLine(lines, i)
             /\ InModuleBody(lines, i) \/ InTopClassBody(lines, i) }

\* the name that the definition of line i gives
DefName(lines, i) == PyLineInfo(lines[i]).name

Dots(symbol) == Cardinality({ k \in 1..Len(symbol) : symbol[k] = "." })

\* C14: for unit kind function, a function of the module body has its bare
\* name as symbol and a method has ClassName.name, the name of the class
\* that holds it and no further qualification; a function of the module
\* body and a method of the same name have different symbols.
C14_MethodSymbolQualifiedOnce ==
  (pc = "done" /\ IsPython /\ unit = "function") =>
    LET lines == source_lines
        parent == ParentsOf(lines)
    IN /\ \A i \in 1..Len(extracted) :
            LET s == extracted[i].line_start
            IN IF parent[s] = 0
               THEN /\ extracted[i].symbol = DefName(lines, s)
                    /\ Dots(extracted[i].symbol) = 0
               ELSE /\ extracted[i].symbol =
                         DefName(lines, parent[s]) \o <<".">> \o DefName(lines, s)
                    /\ Dots(extracted[i].symbol) = 1
       /\ \A i, j \in 1..Len(extracted) :
            (parent[extracted[i].line_start] = 0
             /\ parent[extracted[j].line_start] # 0) =>
              extracted[i].symbol # extracted[j].symbol

C14_Witness ==
  /\ pc = "done" /\ IsPython /\ unit = "function"
  /\ Len(extracted) = 2
  /\ extracted[1].symbol = <<"f">>
  /\ extracted[2].symbol = <<"C", ".", "f">>

\* a ")" that no "(" of its line precedes: no Python text holds such a line
\* (the texts of the model have no string and no comment)
UnmatchedClose(line) ==
  \E i \in 1..Len(line) : line[i] = ")" /\ \A k \in 1..(i - 1) : line[k] # "("

InvalidSyntax(content) ==
  \E i \in 1..Len(splitlines(content)) : UnmatchedClose(splitlines(content)[i])

\* the entry of scanned is a file of the indent family that does not parse,
\* and classes or functions are asked for
Unparseable(entry) ==
  /\ entry.language = "python" /\ unit \in {"class", "function"}
  /\ InvalidSyntax(repo[entry.relative_path])

\* what a unit tells of itself
Told(u) ==
  [source_path |-> u.source_path, unit |-> u.unit, symbol |-> u.symbol,
   line_start |-> u.line_start, line_end |-> u.line_end,
   text_raw |-> u.text_raw]

\* the units of the entries of scanned from entry k on, none for a file that
\* cannot be read and none for one that does not parse
RECURSIVE UnitsOfEntries(_)
UnitsOfEntries(k) ==
  IF k > Len(scanned) THEN <<>>
  ELSE (IF scanned[k].relative_path \in unreadable \/ Unparseable(scanned[k])
        THEN <<>>
        ELSE [i \in 1..Len(ExtractEntry(scanned[k],
                                        repo[scanned[k].relative_path])) |->
                Told(ExtractEntry(scanned[k],
                                  repo[scanned[k].relative_path])[i])])
       \o UnitsOfEntries(k + 1)

\* C15: a file of the indent family that does not parse gives no unit and
\* raises nothing when classes or functions are asked for, and a run that
\* meets such a file still writes the units of every other file.
C15_UnparseableSkippedBatchGoesOn ==
  /\ (pc \in {"files", "write", "idle"} /\ source_path # <<>>
      /\ detect_language(source_path) = "python"
      /\ unit \in {"class", "function"} /\ InvalidSyntax(text))
       => (extracted = <<>> /\ error = NoError)
  /\ (run = 2 /\ pc = "idle" /\ top = None
      /\ \E k \in 1..Len(scanned) : Unparseable(scanned[k]))
       => /\ output.exists
          /\ [i \in 1..Len(output.claims) |-> Told(output.claims[i])]
               = UnitsOfEntries(1)

\* C16: the text_raw of every extracted unit is the lines of the file
\* numbered line_start through line_end, unchanged and joined by one line
\* feed; the lines of the file are those that a line feed ends.
\* the lines of the file whose number is in line_start..line_end, in order
Numbered(lines, line_start, line_end) ==
  [k \in 1..Cardinality((1..Len(lines)) \cap (line_start..line_end))
     |-> lines[Max(line_start, 1) + k - 1]]

C16_RawTextIsOriginalLines ==
  pc = "done" =>
    \A i \in 1..Len(extracted) :
      extracted[i].text_raw =
        JoinNl(Numbered(source_lines, extracted[i].line_start,
                        extracted[i].line_end))

\* the unit kind or the language filter of the command is not a supported one
InvalidConfiguration == unit \notin Units \/ language \notin SupportedLanguages

\* C17: a command with an unsupported unit kind or an unsupported language
\* filter scans no file, produces no unit and writes no output, and it ends
\* with an error, never as a completed run with zero units.
C17_InvalidConfigurationRejected ==
  InvalidConfiguration =>
    /\ pc = "idle" /\ matches = {} /\ scanned = <<>> /\ claims = <<>>
    /\ ~output.exists
    /\ run > 1 => error # NoError

\* the entries of scanned that the loop of the command passes over without
\* units: the file cannot be read, or it does not parse
UnreadEntries ==
  { k \in 1..Len(scanned) : scanned[k].relative_path \in unreadable }

UnparsedEntries ==
  { k \in 1..Len(scanned) :
      scanned[k].relative_path \notin unreadable /\ Unparseable(scanned[k]) }

\* the counts of skipped files that the summary line prints
SkipsReported ==
  scan_summary.skipped_excluded + scan_summary.skipped_too_large
    + decode_error_count

\* C18: a command that got as far as the scan never ends with an error,
\* and at its end the summary counts every skipped file: the files that
\* cannot be read under decode_error, and in all as many files as were
\* skipped, the excluded and the unparseable ones included.
C18_EverySkipCountedNoAbort ==
  (run = 2 /\ pc = "idle" /\ now = 1 /\ top = None) =>
    /\ error = NoError
    /\ decode_error_count = Cardinality(UnreadEntries)
    /\ SkipsReported
         = Cardinality({ p \in matches : Resolve(p) \in RunExcluded })
           + Cardinality(UnreadEntries) + Cardinality(UnparsedEntries)

\* unit a does not come after unit b in the order by path, then line_start
InOrder(a, b) ==
  \/ StrLess(a.source_path, b.source_path)
  \/ a.source_path = b.source_path /\ a.line_start <= b.line_start

\* C19: the units that are given their claim identifiers in a run, in the
\* order in which they are given them, are ordered by source_path and,
\* within one path, by ascending line_start.
C19_UnitsOrderedByPathThenLine ==
  \A i, j \in 1..Len(claims) : i < j => InOrder(claims[i], claims[j])

\* C20: the list of ScannedFile that the scan returns is in ascending order
\* of path, in whatever order the include patterns are given and the file
\* system enumerates the matches.
C20_ScannedSortedByPath ==
  \A i, j \in 1..Len(scanned) :
    i < j => ~StrLess(scanned[j].relative_path, scanned[i].relative_path)

\* the positions of pat that can be reached from those of S by passing over
\* "*" without reading a character
StarClosure(pat, S) ==
  { j \in 0..Len(pat) :
      \E i \in S : i <= j /\ \A m \in (i + 1)..j : pat[m] = "*" }

\* the positions of pat reached from those of S by reading character c
ReadChar(pat, S, c) ==
  StarClosure(pat,
    { i + 1 : i \in { k \in S : k < Len(pat) /\ pat[k + 1] \in {"?", c}
                                  /\ pat[k + 1] # "*" } }
      \cup { i \in S : i >= 1 /\ pat[i] = "*" })

RECURSIVE ReadFrom(_, _, _, _)
ReadFrom(pat, name, k, S) ==
  IF k > Len(name) THEN S
  ELSE ReadFrom(pat, name, k + 1, ReadChar(pat, S, name[k]))

\* the shell pattern pat matches the whole of name: "*" stands for any run
\* of characters, "?" for any one character
PatternMatches(name, pat) ==
  Len(pat) \in ReadFrom(pat, name, 1, StarClosure(pat, {0}))

\* the paths of the trees that some pattern of excludes matches, in their
\* relative or in their anchored form
Matched ==
  [e \in ExcludeArgs |->
     { p \in ScanPaths :
         \E i \in 1..Len(e) : \/ PatternMatches(p, e[i])
                               \/ PatternMatches(<<"/">> \o p, e[i]) }]

\* the paths of the scan result
ScannedPaths == { scanned[i].relative_path : i \in 1..Len(scanned) }

\* the matches that the scan keeps when no exclude pattern matches them
Kept(p) ==
  /\ Len(repo[p]) <= max_bytes
  /\ detect_language(p) # "none"
  /\ language = "all" \/ detect_language(p) = language

\* C21: after a scan, a matched file that some exclude pattern matches, in
\* its relative or in its anchored form, is not in the result and is
\* counted as excluded; a matched file that no exclude pattern matches is
\* not counted as excluded and, within max_bytes and of a language asked
\* for, is in the result.
C21_ExcludedIffPatternMatches ==
  pc = "scanned" =>
    /\ \A p \in matches :
         IF Resolve(p) \in Matched[exclude]
         THEN Resolve(p) \notin ScannedPaths
         ELSE Kept(p) => Resolve(p) \in ScannedPaths
    /\ scan_summary.skipped_excluded
         = Cardinality({ p \in matches : Resolve(p) \in Matched[exclude] })

\* the default excludes keep a file under outputs/ out of the result, by
\* the anchored form alone, and let the file under src/ through
C21_Witness ==
  /\ pc = "scanned" /\ exclude = DEFAULT_EXCLUDES
  /\ OutputsPath \in matches /\ AlphaPath \in matches
  /\ \A i \in 1..Len(DEFAULT_EXCLUDES) :
       ~PatternMatches(OutputsPath, DEFAULT_EXCLUDES[i])
  /\ ScannedPaths = {AlphaPath}
  /\ scan_summary.skipped_excluded = 1

\* the matches that no exclude pattern matches and that are larger than
\* max_bytes
Oversize ==
  { p \in matches : Resolve(p) \notin Matched[exclude]
                     /\ Len(repo[p]) > max_bytes }

\* the matches that no exclude pattern matches, within max_bytes, whose
\* extension is in no entry of LANGUAGE_EXTENSIONS
Unrecognised ==
  { p \in matches : Resolve(p) \notin Matched[exclude]
                     /\ Len(repo[p]) <= max_bytes
                     /\ detect_language(p) = "none" }

\* C22: the scan returns no file larger than max_bytes and no file of an
\* unrecognised extension, it raises nothing, and its summary counts the
\* files dropped for either reason: skipped_too_large is the number of the
\* oversize files, and the skip counts of the summary together cover the
\* excluded, the oversize and the unrecognised files.
C22_OversizeAndUnrecognisedDroppedAndCounted ==
  pc = "scanned" =>
    /\ \A i \in 1..Len(scanned) :
         /\ Len(repo[scanned[i].relative_path]) <= max_bytes
         /\ detect_language(scanned[i].relative_path) # "none"
    /\ error = NoError
    /\ scan_summary.skipped_too_large = Cardinality(Oversize)
    /\ scan_summary.skipped_excluded + scan_summary.skipped_too_large
         = Cardinality({ p \in matches : Resolve(p) \in Matched[exclude] })
           + Cardinality(Oversize) + Cardinality(Unrecognised)

\* the text of the first of the three attempts that decodes: the preferred
\* encoding, then UTF-8 with the byte order mark taken off, then one code
\* point for each byte
FirstThatDecodes ==
  IF decode(data, encoding).ok THEN decode(data, encoding).text
  ELSE IF decode(data, "utf-8-sig").ok THEN decode(data, "utf-8-sig").text
  ELSE data

\* C23: for every content and every encoding argument the call of
\* read_text_with_fallback returns; the text is that of the first of the
\* attempts, in the order preferred encoding, utf-8-sig, latin-1, that
\* decodes, and the checksum is the digest of the bytes.
C23_FirstDecodingNoFailureEscapes ==
  pc = "loaded" =>
    /\ error = NoError
    /\ text = FirstThatDecodes
    /\ sha1 = hexdigest(data)

\* C24: when --top is given, the output that a run writes holds at most
\* top units, for every top from 0 on, and the loop never holds more.
C24_AtMostTopUnitsWritten ==
  top # None =>
    /\ Len(claims) <= top[1]
    /\ output.exists => Len(output.claims) <= top[1]

\* the last line that the candidate at line start_idx consumes: the last
\* line its signature collection reads and, when it is emitted, the last
\* line of its body
LastConsumed(lines, start_idx) ==
  IF FunctionStep(lines, start_idx).kind = "emitted"
  THEN Max(FunctionStep(lines, start_idx).block[3],
           _collect_signature(lines, start_idx).end_idx)
  ELSE _collect_signature(lines, start_idx).end_idx

\* the turn of the loop at line idx examines a candidate
IsCandidateTurn ==
  /\ pc = "loop" /\ loop_idx \in DOMAIN Turns[text]
  /\ Turns[text][loop_idx].kind # "skipped"

\* C25: after a candidate is emitted or abandoned, the loop of
\* _find_function_blocks resumes strictly after the last line that the
\* candidate consumed
C25_ResumesAfterConsumedLines ==
  [][IsCandidateTurn =>
       loop_idx' > LastConsumed(splitlines(text), loop_idx)]_vars

\* a candidate whose opening brace is never closed
UnclosedCandidate(lines, start_idx) ==
  /\ FunctionStep(lines, start_idx).kind = "abandoned"
  /\ _collect_signature(lines, start_idx).brace_location # None
  /\ _extract_function_name(_collect_signature(lines, start_idx).signature)
       \notin CONTROL_KEYWORDS \cup {None}

\* C26: the loop of _find_function_blocks ends on every text, a text with
\* an unclosed brace included, and every turn of the loop increases the
\* line index
C26_LoopTerminates ==
  /\ <>(pc = "done")
  /\ [][pc = "loop" /\ pc' = "loop" => loop_idx' > loop_idx]_vars

\* the loop has ended on a text that holds a candidate with an unclosed brace
C26_Witness ==
  /\ pc = "done"
  /\ \E i \in 1..Len(splitlines(text)) :
       UnclosedCandidate(splitlines(text), i)

\* C30: the units that _find_function_blocks has yielded have line ranges
\* that do not overlap and that follow one another: each unit starts on a
\* line after the last line of the unit yielded before it
C30_YieldedUnitsDisjointAndIncreasing ==
  /\ \A i \in 1..Len(yielded) : yielded[i][2] <= yielded[i][3]
  /\ \A i \in 1..Len(yielded), j \in 1..Len(yielded) :
       i < j => yielded[i][3] < yielded[j][2]

\* the loop has ended after it yielded two units
C30_Witness ==
  /\ pc = "done"
  /\ Len(yielded) >= 2
  /\ yielded = _find_function_blocks(splitlines(text))

\* the line without its "//" comment, for a line that holds no string and no
\* block comment
CodeOf(line) ==
  IF find(line, <<"/","/">>) = 0 THEN line
  ELSE SubSeq(line, 1, find(line, <<"/","/">>) - 1)

\* the line holds the character outside a comment
HasCode(line, char) == Contains(CodeOf(line), char)

\* none of the n lines from line start_idx on holds ";" or "{" outside a
\* comment
NoEndWithin(lines, start_idx, n) ==
  \A i \in start_idx..Min(Len(lines), start_idx + n - 1) :
    ~HasCode(lines[i], ";") /\ ~HasCode(lines[i], "{")

\* the text holds no string and no block comment
PlainText == text \in ParameterListTexts

\* C27: the signature collection of a candidate reads at most 25 lines, the
\* candidate line included; with no ";" and no "{" outside comments in
\* those lines the candidate is abandoned, and no unit that was yielded has
\* its opening brace on the 26th line or later
C27_SignatureWithinTwentyFiveLines ==
  /\ (pc = "loop" /\ loop_idx \in DOMAIN Turns[text]
        /\ Turns[text][loop_idx].kind # "skipped") =>
       /\ _collect_signature(splitlines(text), loop_idx).end_idx
            <= loop_idx + 24
       /\ (PlainText /\ NoEndWithin(splitlines(text), loop_idx, 25)) =>
            /\ Turns[text][loop_idx].kind = "abandoned"
            /\ Yielded(Turns[text][loop_idx]) = <<>>
  /\ PlainText =>
       \A i \in 1..Len(yielded) :
         ~NoEndWithin(splitlines(text), yielded[i][2], 25)

\* the candidate at the first line was abandoned with its opening brace on
\* the 26th line, and the loop has ended with no unit
C27_Witness ==
  /\ pc = "done" /\ yielded = <<>>
  /\ Len(splitlines(text)) = 27
  /\ HasCode(splitlines(text)[26], "{")
  /\ NoEndWithin(splitlines(text), 1, 25)
  /\ Turns[text][1].kind = "abandoned"

\* the number of leading spaces and tabs of the line
Indentation(line) ==
  IF \E i \in 1..Len(line) : line[i] \notin {" ", "\t"}
  THEN (CHOOSE i \in 1..Len(line) :
          /\ line[i] \notin {" ", "\t"}
          /\ \A j \in 1..(i - 1) : line[j] \in {" ", "\t"}) - 1
  ELSE Len(line)

\* line n is not blank and is indented no more than the definition line
EndsDefinition(lines, line_start, n) ==
  /\ ~IsBlank(lines[n])
  /\ Indentation(lines[n]) <= Indentation(lines[line_start])

\* the line before the first line after line_start that ends the
\* definition, the last line when there is none
ExpectedEnd(lines, line_start) ==
  IF \E n \in (line_start + 1)..Len(lines) :
       EndsDefinition(lines, line_start, n)
  THEN (CHOOSE n \in (line_start + 1)..Len(lines) :
          /\ EndsDefinition(lines, line_start, n)
          /\ \A m \in (line_start + 1)..(n - 1) :
               ~EndsDefinition(lines, line_start, m)) - 1
  ELSE Len(lines)

\* C28: without end-line metadata the span of a node ends on the line
\* before the first non-blank line, after the definition line, that is
\* indented no more than the definition line, or on the last line of the
\* file; indentation is of spaces or of tabs
C28_FallbackEndsBeforeNextOutdent ==
  pc = "spanned" =>
    fallback_span =
      <<fallback_node, ExpectedEnd(splitlines(text), fallback_node)>>

\* how many of the four flags of the tracker are set
FlagsSet(state) ==
  Cardinality({ f \in {"in_block_comment", "in_line_comment", "in_string",
                       "in_char"} : state[f] })

\* C29: in each scanning loop, after any characters and line breaks, at
\* most one of in_block_comment, in_line_comment, in_string and in_char is
\* set, and escape_next is set only within a string or a character literal
C29_TrackerFlagsExclusive ==
  tracker_loop \in ScanLoops =>
    /\ FlagsSet(tracker) <= 1
    /\ tracker.escape_next => tracker.in_string \/ tracker.in_char

\* _find_block_end is inside a string, after a backslash, at a quote of a
\* character literal
C29_Witness ==
  /\ tracker_loop = "_find_block_end" /\ pc = "scan"
  /\ tracker.in_string /\ tracker.escape_next
  /\ ahead # <<>> /\ ahead[1] = "'"
  /\ open_braces = 1

====
